---- MODULE Spec2Model ----
(***************************************************************************)
(* Verification model of the Krypton lead scraper: the result caches, the  *)
(* query cache key, the lead quality score, near-duplicate suppression,    *)
(* the listing processors, the ultimate and hyper orchestrators, the       *)
(* website scrapers, the browser context pools, the fan-out over the       *)
(* listings, the throttle of the website fetches, the selector chains,     *)
(* the merge of website information into a lead, the circuit breaker and   *)
(* the scrape jobs of the backend API.                                     *)
(*                                                                         *)
(* Python strings whose characters matter (names, query parameters) are    *)
(* sequences of one-character strings; None is the string "None".          *)
(***************************************************************************)
EXTENDS Integers, Sequences, FiniteSets, TLC

VARIABLES
    jobs,  \* rows of the table scrape_jobs, by job id
    redis,  \* the Redis keys scrape:{job_id}
    last_read,  \* history: the last GET /scrape/{job_id}, by whom, and its response
    circuit_breaker,  \* EnhancedErrorHandler.circuit_breaker: failures, last_failure
    breaker_now,  \* time.time(), in units of 100 seconds
    retry,  \* the execute_with_retry call: whether it runs, and its attempt
    retry_calls,  \* how many execute_with_retry calls have started
    last_try,  \* history: what the last attempt did, and the breaker before it
    fanout_max_results,  \* the max_results the orchestrator was called with
    scraped_leads,  \* history: what scrape_google_maps_ultimate returned to scrape_with_fallback
    merge_by,  \* which function merges the website information into the lead
    lead_data,  \* the lead as it is passed to enrichment
    website_info,  \* what the website scraper returns for the lead's website
    enriched_lead,  \* the lead after enrichment, once it has run
    engine,  \* which scraper's extractor looks for the phone element
    selector_weights,  \* selector_weights / selector_performance of the phone chain
    selectors,  \* the order in which the running call tries the selectors
    page_elements,  \* per declared selector, what query_selector does on the page
    find_pc,  \* where the running extraction is
    extracted,  \* what the last extraction returned
    finds,  \* how many extractions have started
    clock,          \* time.time(), in seconds
    memory_cache,   \* HyperCache.memory_cache: key -> data or None
    db_cache,       \* rows of the sqlite table `cache`: key -> row or None
    cache_op,       \* the cache call that ran last, when, and what it returned
    last_set,       \* history: per key, the arguments of the last set() call
    query_a,        \* a query (business_type, location, max_results)
    query_b,        \* another query
    key_of,         \* the cache keys derived for query_a and query_b, and by whom
    lead,           \* a lead object whose fields are being populated
    lead_class,     \* its class: HyperLead, TurboLead, UltimateLead, BusinessLead
    VALIDATION_AVAILABLE,  \* async_scraper: the validation libraries import
    score_before,   \* history: quality_score before the last field was set
    populated,      \* history: the lead's fields as its caller set them
    businesses,     \* main.py: the businesses collected from the listings
    filtered_businesses,  \* main.py: what the duplicate removal pass kept
    dedup_passes,   \* how many times the duplicate removal pass has run
    dedup_input,    \* history: the list the last pass was given
    scraper,        \* which scraper processes the listings
    listings,       \* the listings found on the results page
    batch_results,  \* per listing processed so far: what its processor returned
    results,        \* the leads the scraper returns
    scrape_error,   \* an exception left the loop over the listings
    ultimate_pc,    \* where the ultimate_scrape call stands
    ultimate_call,  \* its arguments
    leads_cache,    \* the leads_cache row of the call's query, if any
    attempt,        \* execute_with_retry: the attempt number
    failures,       \* circuit_breaker['failures']
    activity,       \* stats['cache_hits'], and history: contexts checked out,
                    \* navigations, API requests, attempts that ended in an
                    \* infrastructure fault
    outcome,        \* how the call ended, and the leads it returned
    entry_point,    \* hyper_scrape, turbo_scrape, ultimate_scrape, start_scraping
    leads,          \* the leads its scraper collected, in discovery order
    returned,       \* whether it has returned, and the list it returned
    enrich_by,      \* the scraper whose website scraper is called
    url,            \* the business website it is given
    site_cache,     \* hyper: the cached result for the url, if any
    response,       \* what fetching the url does
    site_result,    \* the call's result: done, fetched, raised, data
    pool_by,        \* the scraper whose browser pool this is
    context_queue,  \* the contexts in the pool
    calls,          \* per scrape call: where it stands, the context it holds
    created,        \* backend: how many contexts the browser has created
    closed,         \* backend: the contexts that were closed on release
    semaphore,      \* the value of the orchestrator's asyncio.Semaphore
    tasks,          \* per listing: where its process_with_semaphore task stands
    batch_start,    \* the loop variable i of the loop over the batches
    limiter_by,     \* the scraper whose website fetches these are
    now,            \* time.time(), in ticks of half a second
    request_times,  \* SmartRateLimiter.request_times
    callers,        \* per website scrape: where it stands, when it wakes
    fetch_log,      \* history: the fetches started, in order
    hyper_cached,   \* HyperCache: the row of the query's key in the sqlite table, if any
    hyper_call      \* a scrape_google_maps_hyper call: where it stands, what
                    \* it did and returned, and the entry it found (history)

cacheVars == <<clock, memory_cache, db_cache, cache_op, last_set>>
keyVars == <<query_a, query_b, key_of>>
leadVars == <<lead, lead_class, VALIDATION_AVAILABLE, score_before, populated>>
dedupVars == <<businesses, filtered_businesses, dedup_passes, dedup_input>>
listingVars == <<scraper, listings, batch_results, results, scrape_error>>
ultimateVars == <<ultimate_pc, ultimate_call, leads_cache, attempt, failures,
                  activity, outcome, scraped_leads>>
exportVars == <<entry_point, leads, returned>>
enrichVars == <<enrich_by, url, site_cache, response, site_result>>
poolVars == <<pool_by, context_queue, calls, created, closed>>
fanoutVars == <<semaphore, tasks, batch_start, fanout_max_results>>
throttleVars == <<limiter_by, now, request_times, callers, fetch_log>>
hyperVars == <<hyper_cached, hyper_call>>

selectorVars == <<engine, selector_weights, selectors, page_elements, find_pc, extracted, finds>>

mergeVars == <<merge_by, lead_data, website_info, enriched_lead>>

breakerVars == <<circuit_breaker, breaker_now, retry, retry_calls, last_try>>

jobVars == <<jobs, redis, last_read>>

vars == <<clock, memory_cache, db_cache, cache_op, last_set,
          query_a, query_b, key_of,
          lead, lead_class, VALIDATION_AVAILABLE, score_before, populated,
          businesses, filtered_businesses, dedup_passes, dedup_input,
          scraper, listings, batch_results, results, scrape_error,
          ultimate_pc, ultimate_call, leads_cache, attempt, failures,
          activity, outcome, scraped_leads,
          entry_point, leads, returned,
          enrich_by, url, site_cache, response, site_result,
          pool_by, context_queue, calls, created, closed,
          semaphore, tasks, batch_start, fanout_max_results,
          limiter_by, now, request_times, callers, fetch_log,
          hyper_cached, hyper_call,
          engine, selector_weights, selectors, page_elements, find_pc, extracted, finds,
          merge_by, lead_data, website_info, enriched_lead,
          circuit_breaker, breaker_now, retry, retry_calls, last_try,
          jobs, redis, last_read>>

\* What each part of the program leaves alone.
notCacheVars == <<keyVars, leadVars, dedupVars, listingVars, ultimateVars, exportVars, enrichVars, poolVars, fanoutVars, throttleVars, hyperVars, selectorVars, mergeVars, breakerVars, jobVars>>
notKeyVars == <<cacheVars, leadVars, dedupVars, listingVars, ultimateVars, exportVars, enrichVars, poolVars, fanoutVars, throttleVars, hyperVars, selectorVars, mergeVars, breakerVars, jobVars>>
notLeadVars == <<cacheVars, keyVars, dedupVars, listingVars, ultimateVars, exportVars, enrichVars, poolVars, fanoutVars, throttleVars, hyperVars, selectorVars, mergeVars, breakerVars, jobVars>>
notDedupVars == <<cacheVars, keyVars, leadVars, listingVars, ultimateVars, exportVars, enrichVars, poolVars, fanoutVars, throttleVars, hyperVars, selectorVars, mergeVars, breakerVars, jobVars>>
notListingVars == <<cacheVars, keyVars, leadVars, dedupVars, ultimateVars, exportVars, enrichVars, poolVars, fanoutVars, throttleVars, hyperVars, selectorVars, mergeVars, breakerVars, jobVars>>
notUltimateVars == <<cacheVars, keyVars, leadVars, dedupVars, listingVars, exportVars, enrichVars, poolVars, fanoutVars, throttleVars, hyperVars, selectorVars, mergeVars, breakerVars, jobVars>>
notExportVars == <<cacheVars, keyVars, leadVars, dedupVars, listingVars, ultimateVars, enrichVars, poolVars, fanoutVars, throttleVars, hyperVars, selectorVars, mergeVars, breakerVars, jobVars>>
notEnrichVars == <<cacheVars, keyVars, leadVars, dedupVars, listingVars, ultimateVars, exportVars, poolVars, fanoutVars, throttleVars, hyperVars, selectorVars, mergeVars, breakerVars, jobVars>>
notPoolVars == <<cacheVars, keyVars, leadVars, dedupVars, listingVars, ultimateVars, exportVars, enrichVars, fanoutVars, throttleVars, hyperVars, selectorVars, mergeVars, breakerVars, jobVars>>
notFanoutVars == <<cacheVars, keyVars, leadVars, dedupVars, listingVars, ultimateVars, exportVars, enrichVars, poolVars, throttleVars, hyperVars, selectorVars, mergeVars, breakerVars, jobVars>>
notThrottleVars == <<cacheVars, keyVars, leadVars, dedupVars, listingVars, ultimateVars, exportVars, enrichVars, poolVars, fanoutVars, hyperVars, selectorVars, mergeVars, breakerVars, jobVars>>
notHyperVars == <<cacheVars, keyVars, leadVars, dedupVars, listingVars, ultimateVars, exportVars, enrichVars, poolVars, fanoutVars, throttleVars, selectorVars, mergeVars, breakerVars, jobVars>>
notSelectorVars == <<cacheVars, keyVars, leadVars, dedupVars, listingVars, ultimateVars, exportVars, enrichVars, poolVars, fanoutVars, throttleVars, hyperVars, mergeVars, breakerVars, jobVars>>
notMergeVars == <<cacheVars, keyVars, leadVars, dedupVars, listingVars, ultimateVars, exportVars, enrichVars, poolVars, fanoutVars, throttleVars, hyperVars, selectorVars, breakerVars, jobVars>>
notBreakerVars == <<cacheVars, keyVars, leadVars, dedupVars, listingVars, ultimateVars, exportVars, enrichVars, poolVars, fanoutVars, throttleVars, hyperVars, selectorVars, mergeVars, jobVars>>
notJobVars == <<cacheVars, keyVars, leadVars, dedupVars, listingVars, ultimateVars, exportVars, enrichVars, poolVars, fanoutVars, throttleVars, hyperVars, selectorVars, mergeVars, breakerVars>>

None == "None"
\* No row for the key in the sqlite table / no set() call recorded for the key.
NoRow == [value |-> <<>>, timestamp |-> 0, ttl_hours |-> 0]
NoSet == [value |-> None, timestamp |-> 0, ttl_hours |-> 0]

Empty == <<>>

\* A lead as its dataclass creates it: every string empty, every number 0.
NewLead ==
    [name |-> Empty, website |-> Empty, phone |-> Empty, address |-> Empty,
     email |-> Empty, instagram |-> Empty, facebook |-> Empty, tiktok |-> Empty,
     twitter |-> Empty, rating |-> 0, review_count |-> 0, quality_score |-> 0]

\* Number of distinct cache keys the callers use.
NumKeys == 2
CacheKeys == 1..NumKeys

\* The counters of a call before it does anything.
NoActivity ==
    [cache_hits |-> 0, checkouts |-> 0, navigations |-> 0, api_requests |-> 0,
     faults |-> 0]

\* What scraping a business website yields when it finds nothing.
NoWebsiteData ==
    [email |-> Empty, instagram |-> Empty, facebook |-> Empty,
     twitter |-> Empty, tiktok |-> Empty]

\* The state of every part of the program but `part` before that part runs:
\* an empty cache at time 0, no query, a new lead, no business collected,
\* no listing found, no ultimate_scrape call, no extraction, no job.
Idle(part) ==
    /\ IF part = "cache" THEN TRUE ELSE
          /\ clock = 0
          /\ memory_cache = [k \in CacheKeys |-> None]
          /\ db_cache = [k \in CacheKeys |-> NoRow]
          /\ cache_op = [op |-> "init", key |-> 1, at |-> 0, result |-> None]
          /\ last_set = [k \in CacheKeys |-> NoSet]
    /\ IF part = "key" THEN TRUE ELSE
          /\ query_a = [business_type |-> <<>>, location |-> <<>>, max_results |-> 0]
          /\ query_b = [business_type |-> <<>>, location |-> <<>>, max_results |-> 0]
          /\ key_of = [by |-> "nobody", a |-> <<>>, b |-> <<>>]
    /\ IF part = "lead" THEN TRUE ELSE
          /\ lead = NewLead
          /\ lead_class = "HyperLead"
          /\ VALIDATION_AVAILABLE = FALSE
          /\ score_before = 0
          /\ populated = NewLead
    /\ IF part = "dedup" THEN TRUE ELSE
          /\ businesses = <<>>
          /\ filtered_businesses = <<>>
          /\ dedup_passes = 0
          /\ dedup_input = <<>>
    /\ IF part = "listing" THEN TRUE ELSE
          /\ scraper = "hyper"
          /\ listings = <<>>
          /\ batch_results = <<>>
          /\ results = <<>>
          /\ scrape_error = FALSE
    /\ IF part = "ultimate" THEN TRUE ELSE
          /\ scraped_leads = <<>>
          /\ ultimate_pc = "idle"
          /\ ultimate_call = [business_type |-> <<>>, location |-> <<>>,
                              max_results |-> 0, google_api_key |-> FALSE]
          /\ leads_cache = <<>>
          /\ attempt = 0
          /\ failures = 0
          /\ activity = NoActivity
          /\ outcome = [kind |-> "running", leads |-> <<>>]
    /\ IF part = "export" THEN TRUE ELSE
          /\ entry_point = "hyper_scrape"
          /\ leads = <<>>
          /\ returned = [done |-> FALSE, leads |-> <<>>]
    /\ IF part = "enrich" THEN TRUE ELSE
          /\ enrich_by = "hyper"
          /\ url = <<>>
          /\ site_cache = <<>>
          /\ response = [kind |-> "timeout", status |-> 0, html |-> <<>>]
          /\ site_result = [done |-> FALSE, fetched |-> FALSE, raised |-> FALSE,
                            data |-> NoWebsiteData]
    /\ IF part = "pool" THEN TRUE ELSE
          /\ pool_by = "hyper"
          /\ context_queue = <<>>
          /\ calls = <<>>
          /\ created = 0
          /\ closed = {}
    /\ IF part = "fanout" THEN TRUE ELSE
          /\ fanout_max_results = 1
          /\ semaphore = 0
          /\ tasks = <<>>
          /\ batch_start = 0
    /\ IF part = "throttle" THEN TRUE ELSE
          /\ limiter_by = "async"
          /\ now = 0
          /\ request_times = <<>>
          /\ callers = <<>>
          /\ fetch_log = <<>>
    /\ IF part = "hyper" THEN TRUE ELSE
          /\ hyper_cached = <<>>
          /\ hyper_call = [pc |-> "idle"]
    /\ IF part = "selector" THEN TRUE ELSE
          /\ engine = "hyper"
          /\ selector_weights = <<>>
          /\ selectors = <<>>
          /\ page_elements = <<>>
          /\ find_pc = "idle"
          /\ extracted = <<>>
          /\ finds = 0
    /\ IF part = "merge" THEN TRUE ELSE
          /\ merge_by = "enrich_lead_async"
          /\ lead_data = NewLead
          /\ website_info = NoWebsiteData
          /\ enriched_lead = <<>>
    /\ IF part = "breaker" THEN TRUE ELSE
          /\ circuit_breaker = [failures |-> 0, last_failure |-> 0]
          /\ breaker_now = 0
          /\ retry = [running |-> FALSE, attempt |-> 0]
          /\ retry_calls = 0
          /\ last_try = [kind |-> "none", before |-> [failures |-> 0, last_failure |-> 0]]
    /\ IF part = "job" THEN TRUE ELSE
          /\ jobs = <<>>
          /\ redis = <<>>
          /\ last_read = [user |-> "none", job |-> 0, kind |-> "none", leads |-> <<>>]

\* ------------------------------------------------------------------------
\* Python str operations on sequences of characters
\* ------------------------------------------------------------------------

UpperChars == <<"A","B","C","D","E","F","G","H","I","J","K","L","M",
                "N","O","P","Q","R","S","T","U","V","W","X","Y","Z">>
LowerChars == <<"a","b","c","d","e","f","g","h","i","j","k","l","m",
                "n","o","p","q","r","s","t","u","v","w","x","y","z">>
Whitespace == {" ", "\t", "\n"}
Digits == <<"0","1","2","3","4","5","6","7","8","9">>

lower_char(c) ==
    IF \E i \in DOMAIN UpperChars : UpperChars[i] = c
    THEN LowerChars[CHOOSE i \in DOMAIN UpperChars : UpperChars[i] = c]
    ELSE c

\* str.lower()
lower(s) == [i \in 1..Len(s) |-> lower_char(s[i])]

RECURSIVE lstrip(_)
lstrip(s) == IF s # <<>> /\ Head(s) \in Whitespace THEN lstrip(Tail(s)) ELSE s

RECURSIVE rstrip(_)
rstrip(s) ==
    IF s # <<>> /\ s[Len(s)] \in Whitespace
    THEN rstrip(SubSeq(s, 1, Len(s) - 1))
    ELSE s

\* str.strip()
strip(s) == rstrip(lstrip(s))

\* a in b, for strings
IsSubstring(a, b) ==
    \E i \in 0..(Len(b) - Len(a)) : SubSeq(b, i + 1, i + Len(a)) = a

\* str(n) for a non-negative int
RECURSIVE str_int(_)
str_int(n) ==
    IF n < 10 THEN <<Digits[n + 1]>>
    ELSE str_int(n \div 10) \o <<Digits[(n % 10) + 1]>>

\* ------------------------------------------------------------------------
\* Lead objects and their quality score
\* (HyperLead, TurboLead, UltimateLead, BusinessLead)
\* ------------------------------------------------------------------------

\* Texts that pages, listings and websites hold in this model.
Text ==
    [JoesPizza |-> <<"J","o","e","'","s"," ","P","i","z","z","a">>,
     Haywire |-> <<"H","a","y","w","i","r","e">>,
     JoesWebsite |-> <<"h","t","t","p","s",":","/","/","j","o","e","s","p","i","z","z","a",".","c","o","m">>,
     BlankText |-> <<" ">>,
     JoesPhone |-> <<"(","5","5","5",")"," ","1","2","3","-","4","5","6","7">>,
     JoesPhoneDigits |-> <<"5","5","5","1","2","3","4","5","6","7">>,
     NotAPhone |-> <<"C","a","l","l"," ","n","o","w">>,
     JoesEmail |-> <<"i","n","f","o","@","j","o","e","s","p","i","z","z","a",".","c","o","m">>,
     OwnerEmail |-> <<"j","o","e","@","j","o","e","s","p","i","z","z","a",".","c","o","m">>,
     NotAnEmail |-> <<"l","o","g","o","@","2","x",".","p","n","g">>,
     JoesAddress |-> <<"1"," ","M","a","i","n"," ","S","t">>,
     InstagramUrl |-> <<"h","t","t","p","s",":","/","/","i","n","s","t","a","g","r","a","m",".","c","o","m","/","j","o","e","s">>,
     FacebookUrl |-> <<"h","t","t","p","s",":","/","/","f","a","c","e","b","o","o","k",".","c","o","m","/","j","o","e","s">>,
     TiktokUrl |-> <<"h","t","t","p","s",":","/","/","t","i","k","t","o","k",".","c","o","m","/","@","j","o","e","s">>,
     HaywireRestaurant |-> <<"H","a","y","w","i","r","e"," ","R","e","s","t","a","u","r","a","n","t">>,
     HaywireLower |-> <<"h","a","y","w","i","r","e">>,
     Haywires |-> <<"H","a","y","w","i","r","e","s">>,
     HaywireCo |-> <<"H","a","y","w","i","r","e"," ","C","o">>,
     ACafeRio |-> <<"A"," ","C","a","f","e"," ","R","i","o">>,
     CafeRios |-> <<"C","a","f","e"," ","R","i","o","s">>,
     ACafeRios |-> <<"A"," ","C","a","f","e"," ","R","i","o","s">>,
     Results |-> <<"R","e","s","u","l","t","s">>,
     ShortName |-> <<"A","l">>,
     Call |-> <<"C","a","l","l">>,
     ShortNamePadded |-> <<"A","l"," ">>,
     HaywirePadded |-> <<" ","H","a","y","w","i","r","e"," ">>,
     TwitterUrl |-> <<"h","t","t","p","s",":","/","/","t","w","i","t","t","e","r",".","c","o","m","/","j","o","e","s">>,
     TwitterUrlCapital |-> <<"h","t","t","p","s",":","/","/","T","w","i","t","t","e","r",".","c","o","m","/","j","o","e","s">>,
     TwitterUrlWww |-> <<"h","t","t","p",":","/","/","w","w","w",".","t","w","i","t","t","e","r",".","c","o","m","/","j","o","e","s">>,
     XUrl |-> <<"h","t","t","p","s",":","/","/","x",".","c","o","m","/","j","o","e","s">>]

StringFields ==
    {"name", "website", "phone", "address", "email",
     "instagram", "facebook", "tiktok", "twitter"}
SocialFields == {"instagram", "facebook", "tiktok", "twitter"}

LeadClasses == {"HyperLead", "TurboLead", "UltimateLead", "BusinessLead"}

\* The fields of each class that a caller may set.
FieldsOf(class) ==
    IF class = "UltimateLead" THEN StringFields \cup {"rating", "review_count"}
    ELSE StringFields

\* Values a field is populated with.
FieldValues(f) ==
    CASE f = "name" -> {Text.JoesPizza, Text.Haywire}
      [] f = "website" -> {Text.JoesWebsite, Text.BlankText}
      [] f = "phone" -> {Text.JoesPhone, Text.JoesPhoneDigits, Text.NotAPhone}
      [] f = "email" -> {Text.JoesEmail, Text.NotAnEmail}
      [] f = "address" -> {Text.JoesAddress}
      [] f = "instagram" -> {Text.InstagramUrl}
      [] f = "facebook" -> {Text.FacebookUrl}
      [] f = "tiktok" -> {Text.TiktokUrl}
      [] f = "twitter" -> {Text.XUrl}
      [] f = "rating" -> {4}
      [] f = "review_count" -> {12}

\* Python truthiness of a string field.
Truthy(v) == v # Empty

\* The field holds its "absent" value: the empty string, or 0.
Unset(l, f) == IF f \in StringFields THEN l[f] = Empty ELSE l[f] = 0

Points(cond, n) == IF cond THEN n ELSE 0
Min(a, b) == IF a < b THEN a ELSE b

\* HyperLead.calculate_quality without the cap at 10.
HyperLead_quality_uncapped(l) ==
    Points(Truthy(l.name), 2) + Points(Truthy(l.website), 3)
    + Points(Truthy(l.phone), 2) + Points(Truthy(l.email), 3)
    + Points(Truthy(l.address), 1)
    + Points(Truthy(l.instagram) \/ Truthy(l.facebook) \/ Truthy(l.twitter), 1)

\* HyperLead.calculate_quality
HyperLead_calculate_quality(l) ==
    Min(Points(Truthy(l.name), 2) + Points(Truthy(l.website), 3)
        + Points(Truthy(l.phone), 2) + Points(Truthy(l.email), 3)
        + Points(Truthy(l.address), 1)
        + Points(Truthy(l.instagram) \/ Truthy(l.facebook) \/ Truthy(l.twitter), 1),
        10)

\* TurboLead's score computed with HyperLead's weights.
TurboLead_quality_hyper_weights(l) ==
    Min(Points(Truthy(l.name), 2) + Points(Truthy(l.website), 3)
        + Points(Truthy(l.phone), 2) + Points(Truthy(l.email), 3)
        + Points(Truthy(l.address), 1)
        + Points(Truthy(l.instagram) \/ Truthy(l.facebook) \/ Truthy(l.twitter), 1),
        10)

\* TurboLead.calculate_quality
TurboLead_calculate_quality(l) ==
    Min(Points(Truthy(l.name), 2) + Points(Truthy(l.website), 2)
        + Points(Truthy(l.phone), 2) + Points(Truthy(l.email), 2)
        + Points(Truthy(l.address), 1)
        + Points(Truthy(l.instagram) \/ Truthy(l.facebook) \/ Truthy(l.twitter), 1),
        10)

\* UltimateLead.calculate_quality
UltimateLead_calculate_quality(l) ==
    Min(Points(Truthy(l.name), 2) + Points(Truthy(l.website), 3)
        + Points(Truthy(l.phone), 2) + Points(Truthy(l.email), 3)
        + Points(Truthy(l.address), 1)
        + Points(l.rating > 0, 1) + Points(l.review_count > 0, 1)
        + Points(Truthy(l.instagram) \/ Truthy(l.facebook) \/ Truthy(l.twitter), 1),
        10)

\* email_validator.validate_email accepts the address.
EmailIsValid(email) == email = Text.JoesEmail
\* phonenumbers.parse(phone, "US") gives a valid number.
PhoneIsValid(phone) == phone \in {Text.JoesPhone, Text.JoesPhoneDigits}
\* phonenumbers.format_number(parsed, NATIONAL)
format_national(phone) == Text.JoesPhone

\* BusinessLead.validate_email
validate_email(l, available) ==
    available /\ Truthy(l.email) /\ EmailIsValid(l.email)

\* BusinessLead.validate_phone: the value returned.
validate_phone(l, available) ==
    available /\ Truthy(l.phone) /\ PhoneIsValid(l.phone)

\* BusinessLead.calculate_quality_score: the score.
BusinessLead_calculate_quality_score(l, available) ==
    Min(10,
        2 * Cardinality({f \in {"name", "website", "phone", "email", "address"} :
                            strip(l[f]) # Empty})
        + Cardinality({f \in SocialFields : strip(l[f]) # Empty})
        + Points(Truthy(l.email) /\ validate_email(l, available), 2)
        + Points(Truthy(l.phone) /\ validate_phone(l, available), 2))

\* The score each class computes for its lead.
calculate_quality(class, l, available) ==
    CASE class = "HyperLead" -> HyperLead_calculate_quality(l)
      [] class = "TurboLead" -> TurboLead_calculate_quality(l)
      [] class = "UltimateLead" -> UltimateLead_calculate_quality(l)
      [] class = "BusinessLead" -> BusinessLead_calculate_quality_score(l, available)

\* The lead after its calculate_quality() call: the score is stored, and
\* BusinessLead.validate_phone rewrites a valid phone in national format.
Scored(class, l, available) ==
    [l EXCEPT !.quality_score = calculate_quality(class, l, available),
              !.phone = IF class = "BusinessLead" /\ validate_phone(l, available)
                        THEN format_national(l.phone) ELSE l.phone]

\* A lead is created; BusinessLead.__post_init__ scores it at once.
InitLead ==
    /\ Idle("lead")
    /\ lead_class \in LeadClasses
    /\ VALIDATION_AVAILABLE \in
          (IF lead_class = "BusinessLead" THEN BOOLEAN ELSE {FALSE})
    /\ lead = NewLead
    /\ score_before = 0
    /\ populated = NewLead

\* A caller sets a field that was empty and recomputes the score.
PopulateField(f, v) ==
    /\ Unset(lead, f)
    /\ score_before' = lead.quality_score
    /\ lead' = Scored(lead_class, [lead EXCEPT ![f] = v], VALIDATION_AVAILABLE)
    /\ populated' = [populated EXCEPT ![f] = v]
    /\ UNCHANGED <<lead_class, VALIDATION_AVAILABLE, notLeadVars>>

LeadNext ==
    \E f \in FieldsOf(lead_class) : \E v \in FieldValues(f) : PopulateField(f, v)

\* ------------------------------------------------------------------------
\* HyperCache (hyper_scraper.py)
\* ------------------------------------------------------------------------

\* Capacity of the memory tier (HyperCache.max_memory_items, 1000 in the
\* source; scaled down so that the memory tier fills up).
max_memory_items == 2
\* The clock advances in steps of ClockStep seconds, at most MaxTicks times.
ClockStep == 1800
MaxTicks == 3
SecondsPerHour == 3600

CacheData == {"leadsA", "leadsB"}
TtlHours == {1}

\* json.dumps / json.loads of the cached data.
json_dumps(data) == <<"json", data>>
json_loads(text) == text[2]

\* HyperCache._is_expired
is_expired(timestamp, ttl_hours) ==
    clock - timestamp > ttl_hours * SecondsPerHour

\* The TTL of an entry written at `timestamp` has elapsed at time `at`.
TtlElapsed(at, timestamp, ttl_hours) ==
    at - timestamp > ttl_hours * SecondsPerHour

\* len(self.memory_cache)
MemoryLen(mem) == Cardinality({k \in CacheKeys : mem[k] # None})

\* HyperCache.get: the value returned.
HyperGetResult(key) ==
    IF memory_cache[key] # None
    THEN memory_cache[key]
    ELSE IF db_cache[key] # NoRow
            /\ ~is_expired(db_cache[key].timestamp, db_cache[key].ttl_hours)
         THEN json_loads(db_cache[key].value)
         ELSE None

\* HyperCache.get: the memory tier after the call.
HyperGetMemory(key) ==
    IF memory_cache[key] = None
       /\ db_cache[key] # NoRow
       /\ ~is_expired(db_cache[key].timestamp, db_cache[key].ttl_hours)
       /\ MemoryLen(memory_cache) < max_memory_items
    THEN [memory_cache EXCEPT ![key] = json_loads(db_cache[key].value)]
    ELSE memory_cache

\* HyperCache.set: the memory tier after `self.memory_cache[key] = data`
\* guarded by the capacity test.
HyperSetMemory(key, data) ==
    IF MemoryLen(memory_cache) < max_memory_items
    THEN [memory_cache EXCEPT ![key] = data]
    ELSE memory_cache

InitCache ==
    /\ Idle("cache")
    /\ clock = 0
    /\ memory_cache = [k \in CacheKeys |-> None]
    /\ db_cache = [k \in CacheKeys |-> NoRow]
    /\ cache_op = [op |-> "init", key |-> 1, at |-> 0, result |-> None]
    /\ last_set = [k \in CacheKeys |-> NoSet]

\* await cache.get(key)
CacheGet(key) ==
    /\ cache_op' = [op |-> "get", key |-> key, at |-> clock,
                    result |-> HyperGetResult(key)]
    /\ memory_cache' = HyperGetMemory(key)
    /\ UNCHANGED <<clock, db_cache, last_set, notCacheVars>>

\* await cache.set(key, data, ttl_hours): memory first, then INSERT OR REPLACE.
CacheSet(key, data, ttl_hours) ==
    /\ memory_cache' = HyperSetMemory(key, data)
    /\ db_cache' = [db_cache EXCEPT ![key] =
                      [value |-> json_dumps(data), timestamp |-> clock,
                       ttl_hours |-> ttl_hours]]
    /\ last_set' = [last_set EXCEPT ![key] =
                      [value |-> data, timestamp |-> clock, ttl_hours |-> ttl_hours]]
    /\ cache_op' = [op |-> "set", key |-> key, at |-> clock, result |-> None]
    /\ UNCHANGED <<clock, notCacheVars>>

\* cache.set whose sqlite write raises (locked or unwritable database): the
\* memory tier was already written, the row is not, the exception propagates.
CacheSetDbFails(key, data, ttl_hours) ==
    /\ memory_cache' = HyperSetMemory(key, data)
    /\ last_set' = [last_set EXCEPT ![key] =
                      [value |-> data, timestamp |-> clock, ttl_hours |-> ttl_hours]]
    /\ cache_op' = [op |-> "set_failed", key |-> key, at |-> clock, result |-> None]
    /\ UNCHANGED <<clock, db_cache, notCacheVars>>

\* HyperCache.cleanup_expired: DELETE ... WHERE now - timestamp > ttl_hours*3600
CleanupExpired ==
    /\ db_cache' = [k \in CacheKeys |->
                      IF db_cache[k] # NoRow
                         /\ is_expired(db_cache[k].timestamp, db_cache[k].ttl_hours)
                      THEN NoRow ELSE db_cache[k]]
    /\ cache_op' = [op |-> "cleanup", key |-> 1, at |-> clock, result |-> None]
    /\ UNCHANGED <<clock, memory_cache, last_set, notCacheVars>>

\* Time passes.
AdvanceClock ==
    /\ clock < MaxTicks * ClockStep
    /\ clock' = clock + ClockStep
    /\ UNCHANGED <<memory_cache, db_cache, cache_op, last_set, notCacheVars>>

CacheNext ==
    \/ \E key \in CacheKeys : CacheGet(key)
    \/ \E key \in CacheKeys, data \in CacheData, ttl \in TtlHours :
          CacheSet(key, data, ttl)
    \/ \E key \in CacheKeys, data \in CacheData, ttl \in TtlHours :
          CacheSetDbFails(key, data, ttl)
    \/ CleanupExpired
    \/ AdvanceClock

SpecCache == InitCache /\ [][CacheNext]_vars

\* C1: once the TTL of the entry last written for a key has elapsed, a get of
\* that key returns None, also when the key is still in the memory tier.
C1_ExpiredReadsAbsent ==
    (/\ cache_op.op = "get"
     /\ last_set[cache_op.key] # NoSet
     /\ TtlElapsed(cache_op.at, last_set[cache_op.key].timestamp,
                   last_set[cache_op.key].ttl_hours))
    => cache_op.result = None

\* C2: the memory tier never differs from the durable tier for a key, and a
\* get issued after the last set of a live entry returns that set's value.
C2_WriteThroughLastWriteWins ==
    /\ \A k \in CacheKeys :
          (memory_cache[k] # None /\ db_cache[k] # NoRow) =>
             json_loads(db_cache[k].value) = memory_cache[k]
    /\ (/\ cache_op.op = "get"
        /\ last_set[cache_op.key] # NoSet
        /\ ~TtlElapsed(cache_op.at, last_set[cache_op.key].timestamp,
                       last_set[cache_op.key].ttl_hours))
       => cache_op.result = last_set[cache_op.key].value

\* ------------------------------------------------------------------------
\* Query cache keys (ultimate_scraper.py, turbo_scraper.py, hyper_scraper.py)
\* ------------------------------------------------------------------------


\* "Coffee Shop", "coffee shop", "coffee shop ", "a_b", "a"
BusinessTypes ==
    {<<"C","o","f","f","e","e"," ","S","h","o","p">>,
     <<"c","o","f","f","e","e"," ","s","h","o","p">>,
     <<"c","o","f","f","e","e"," ","s","h","o","p"," ">>,
     <<"a","_","b">>, <<"a">>}
\* "Austin, TX", "c", "b_c"
Locations == {<<"A","u","s","t","i","n",","," ","T","X">>, <<"c">>, <<"b","_","c">>}
MaxResultsChoices == {1, 10}

Queries ==
    [business_type : BusinessTypes, location : Locations,
     max_results : MaxResultsChoices]

\* hashlib.md5(text.encode()).hexdigest(): a digest that identifies its input
\* (no two of the strings hashed here share an MD5 digest).
md5_hexdigest(text) == <<"md5">> \o text

\* UltimateScraper.get_cache_key
get_cache_key(business_type, location, max_results) ==
    md5_hexdigest(business_type \o <<"_">> \o location \o <<"_">>
                  \o str_int(max_results))

\* TurboScraper.scrape_google_maps_turbo: f"maps_{business_type}_{location}"
turbo_cache_key(business_type, location, max_results) ==
    <<"m","a","p","s","_">> \o business_type \o <<"_">> \o location

\* HyperScraper.scrape_google_maps_hyper:
\* f"hyper_maps_{business_type}_{location}_{max_results}"
hyper_cache_key(business_type, location, max_results) ==
    <<"h","y","p","e","r","_","m","a","p","s","_">> \o business_type
        \o <<"_">> \o location \o <<"_">> \o str_int(max_results)

\* The key under which each scraper caches a query's results.
cache_key(by, q) ==
    CASE by = "ultimate" -> get_cache_key(q.business_type, q.location, q.max_results)
      [] by = "turbo" -> turbo_cache_key(q.business_type, q.location, q.max_results)
      [] by = "hyper" -> hyper_cache_key(q.business_type, q.location, q.max_results)

\* A scraper derives the cache keys of the two queries.
DeriveKeys(by) ==
    /\ key_of.by = "nobody"
    /\ key_of' = [by |-> by, a |-> cache_key(by, query_a), b |-> cache_key(by, query_b)]
    /\ UNCHANGED <<query_a, query_b, notKeyVars>>

KeyNext == \E by \in {"ultimate", "turbo", "hyper"} : DeriveKeys(by)

InitKey ==
    /\ Idle("key")
    /\ query_a \in Queries
    /\ query_b \in Queries
    /\ key_of = [by |-> "nobody", a |-> <<>>, b |-> <<>>]

SpecKey == InitKey /\ [][KeyNext]_vars

\* The normalized triple of a query: trimmed, case-folded strings.
NormalizedQuery(q) ==
    [business_type |-> lower(strip(q.business_type)),
     location |-> lower(strip(q.location)),
     max_results |-> q.max_results]

\* C3: two queries get the same cache key if and only if their normalized
\* triples (business_type, location, max_results) are equal.
C3_KeyIsNormalizedTriple ==
    key_of.by # "nobody" =>
        ((key_of.a = key_of.b) <=> (NormalizedQuery(query_a) = NormalizedQuery(query_b)))

\* ------------------------------------------------------------------------
\* Quality score properties
\* ------------------------------------------------------------------------

SpecLead == InitLead /\ [][LeadNext]_vars

\* One value per field, standing for "populated".
Populated(f) ==
    CASE f = "name" -> Text.JoesPizza
      [] f = "website" -> Text.JoesWebsite
      [] f = "phone" -> Text.JoesPhone
      [] f = "email" -> Text.JoesEmail
      [] f = "address" -> Text.JoesAddress
      [] f = "instagram" -> Text.InstagramUrl
      [] f = "facebook" -> Text.FacebookUrl
      [] f = "tiktok" -> Text.TiktokUrl
      [] f = "twitter" -> Text.XUrl

\* The lead with the same fields non-empty, each holding the one value above.
SamePopulatedFields(l) ==
    [f \in DOMAIN l |->
        IF f \in StringFields
        THEN (IF l[f] = Empty THEN Empty ELSE Populated(f))
        ELSE l[f]]

\* The lead with the same fields non-blank, the same validity of email and
\* phone, and otherwise the one value above in each field.
SameShape(l) ==
    [f \in DOMAIN l |->
        IF f \notin StringFields THEN l[f]
        ELSE IF l[f] = Empty THEN Empty
        ELSE IF strip(l[f]) = Empty THEN Text.BlankText
        ELSE IF f = "email" /\ ~EmailIsValid(l[f]) THEN Text.NotAnEmail
        ELSE IF f = "phone" /\ ~PhoneIsValid(l[f]) THEN Text.NotAPhone
        ELSE Populated(f)]

\* C6 (as claimed): the score is in 0..10, never decreases when an empty
\* field is populated, and is the same for every lead with the same fields
\* non-empty.
C6_ScoreOfNonEmptyFields ==
    /\ lead.quality_score \in 0..10
    /\ lead.quality_score >= score_before
    /\ lead.quality_score =
          calculate_quality(lead_class, SamePopulatedFields(lead),
                            VALIDATION_AVAILABLE)

\* C6 (amended): the score is in 0..10 and never decreases when an empty
\* field is populated; it is the same for every HyperLead, TurboLead or
\* UltimateLead with the same fields non-empty, and for every BusinessLead
\* with the same fields non-blank and the same validity of email and phone.
C6_ScoreOfFieldShape ==
    /\ lead.quality_score \in 0..10
    /\ lead.quality_score >= score_before
    /\ lead.quality_score =
          calculate_quality(lead_class,
                            IF lead_class = "BusinessLead" THEN SameShape(lead)
                            ELSE SamePopulatedFields(lead),
                            VALIDATION_AVAILABLE)

\* A validated BusinessLead named Text.Haywire got a malformed email, and its
\* score rose.
C6_Witness ==
    /\ lead_class = "BusinessLead"
    /\ VALIDATION_AVAILABLE
    /\ lead.name = Text.Haywire
    /\ lead.email = Text.NotAnEmail
    /\ lead.phone = Text.JoesPhone
    /\ lead.quality_score > score_before

\* The caller has set exactly name, website, phone and email.
ExactlyContactFields ==
    \A f \in FieldsOf(lead_class) :
        ~Unset(populated, f) <=> f \in {"name", "website", "phone", "email"}

WithoutSocial(l) ==
    [f \in DOMAIN l |-> IF f \in SocialFields THEN Empty ELSE l[f]]

\* C22: a HyperLead or UltimateLead that scores less than 10 without its
\* social links scores one more when at least one of instagram, facebook,
\* tiktok and twitter is set, and the same when none is.
C22_AnySocialLinkScoresOne ==
    LET bare == calculate_quality(lead_class, WithoutSocial(lead),
                                  VALIDATION_AVAILABLE)
    IN (lead_class \in {"HyperLead", "UltimateLead"} /\ bare < 10) =>
           lead.quality_score =
               bare + Points(\E f \in SocialFields : Truthy(lead[f]), 1)

\* ------------------------------------------------------------------------
\* Final duplicate removal pass (main.py)
\* ------------------------------------------------------------------------

\* At most this many businesses are collected.
MaxBusinesses == 3
\* The duplicate removal pass runs at most this many times in a row.
MaxPasses == 2

\* Names the listing loop collects: stripped, longer than 2 characters.
NamePool ==
    {Text.Haywire, Text.HaywireRestaurant, Text.HaywireLower, Text.Haywires,
     Text.HaywireCo, Text.ACafeRio, Text.CafeRios, Text.ACafeRios, Text.JoesPizza}

\* business['name'].lower().strip()
name_key(business) == strip(lower(business.name))

\* A variant of the test that takes 70% itself for similar.
similar_names_from_70(key, existing_name) ==
    /\ IsSubstring(key, existing_name) \/ IsSubstring(existing_name, key)
    /\ LET shorter == IF Len(key) <= Len(existing_name) THEN key ELSE existing_name
           longer == IF Len(key) <= Len(existing_name) THEN existing_name ELSE key
       IN 10 * Len(shorter) >= 7 * Len(longer)

\* The test of the inner loop: one name contains the other and the shorter
\* is more than 70% as long as the longer.
similar_names(key, existing_name) ==
    /\ IsSubstring(key, existing_name) \/ IsSubstring(existing_name, key)
    /\ LET shorter == IF Len(key) <= Len(existing_name) THEN key ELSE existing_name
           longer == IF Len(key) <= Len(existing_name) THEN existing_name ELSE key
       IN 10 * Len(shorter) > 7 * Len(longer)

\* A variant of the loop that, on a similar name, puts the new business in
\* the place of the first similar one it kept.
RECURSIVE dedup_keep_latest(_, _)
dedup_keep_latest(rest, kept) ==
    IF rest = <<>> THEN kept
    ELSE LET business == Head(rest)
             key == name_key(business)
             hits == {i \in 1..Len(kept) :
                         \/ name_key(kept[i]) = key
                         \/ similar_names(key, name_key(kept[i]))}
         IN IF hits = {}
            THEN dedup_keep_latest(Tail(rest), Append(kept, business))
            ELSE LET first == CHOOSE i \in hits : \A j \in hits : i <= j
                 IN dedup_keep_latest(Tail(rest), [kept EXCEPT ![first] = business])

\* The loop over `businesses`; seen_names is the set of keys of what is kept.
RECURSIVE dedup_loop(_, _)
dedup_loop(rest, kept) ==
    IF rest = <<>> THEN kept
    ELSE LET business == Head(rest)
             key == name_key(business)
             seen_names == {name_key(kept[i]) : i \in 1..Len(kept)}
             is_similar == \E existing_name \in seen_names :
                               similar_names(key, existing_name)
         IN IF key \in seen_names \/ is_similar
            THEN dedup_loop(Tail(rest), kept)
            ELSE dedup_loop(Tail(rest), Append(kept, business))

\* The businesses collected by the listing loop, in discovery order.
InitDedup ==
    /\ Idle("dedup")
    /\ \E n \in 0..MaxBusinesses :
         \E names \in [1..n -> NamePool] :
            businesses = [i \in 1..n |-> [name |-> names[i], listing |-> i]]
    /\ filtered_businesses = <<>>
    /\ dedup_passes = 0
    /\ dedup_input = <<>>

\* The duplicate removal pass, on the collected businesses.
RemoveDuplicates ==
    /\ dedup_passes = 0
    /\ dedup_input' = businesses
    /\ filtered_businesses' = dedup_loop(businesses, <<>>)
    /\ dedup_passes' = 1
    /\ UNCHANGED <<businesses, notDedupVars>>

\* The duplicate removal pass, on the list a previous pass returned.
RemoveDuplicatesAgain ==
    /\ dedup_passes >= 1
    /\ dedup_passes < MaxPasses
    /\ dedup_input' = filtered_businesses
    /\ filtered_businesses' = dedup_loop(filtered_businesses, <<>>)
    /\ dedup_passes' = dedup_passes + 1
    /\ UNCHANGED <<businesses, notDedupVars>>

DedupNext == RemoveDuplicates \/ RemoveDuplicatesAgain

SpecDedup == InitDedup /\ [][DedupNext]_vars

NamesOf(list) == [i \in 1..Len(list) |-> list[i].name]

\* C9: when the collected businesses are "Haywire" and "Haywire Restaurant",
\* in either order, the duplicate removal pass keeps only the first of them.
C9_HaywireKeepsFirst ==
    (/\ dedup_passes = 1
     /\ NamesOf(businesses) \in {<<Text.Haywire, Text.HaywireRestaurant>>,
                                 <<Text.HaywireRestaurant, Text.Haywire>>})
       => filtered_businesses = <<businesses[1]>>

\* C10: running the duplicate removal pass on a list that a pass has already
\* deduplicated returns that list unchanged.
C10_DedupIdempotent ==
    dedup_passes >= 2 => filtered_businesses = dedup_input

\* A second pass has run on the result of a first pass that removed a
\* similar name and an exact duplicate.
C10_Witness ==
    /\ dedup_passes = 2
    /\ NamesOf(businesses) = <<Text.Haywire, Text.Haywires, Text.HaywireLower>>
    /\ NamesOf(filtered_businesses) = <<Text.Haywire>>

\* Two businesses collide: their lower-cased, trimmed names are equal, or
\* one is a substring of the other and the shorter is more than 0.7 times
\* as long as the longer.
Collide(a, b) ==
    LET x == strip(lower(a.name))
        y == strip(lower(b.name))
    IN \/ x = y
       \/ /\ IsSubstring(x, y) \/ IsSubstring(y, x)
          /\ 10 * Min(Len(x), Len(y)) > 7 * (IF Len(x) > Len(y) THEN Len(x) ELSE Len(y))

\* The positions of the pass's input that its output holds, in order.
KeptAt ==
    [k \in 1..Len(filtered_businesses) |->
        CHOOSE i \in 1..Len(dedup_input) : dedup_input[i] = filtered_businesses[k]]

MaxListings == 2

\* query_selector returns an element, <<text>>, or no element, <<>>.
NoElement == <<>>

\* A page as the extractors see it: per field, the element that the field's
\* selectors find.  context.new_page() returns a page with no element.
new_page ==
    [name |-> NoElement, website |-> NoElement, phone |-> NoElement,
     address |-> NoElement]

\* The name elements of a listing card, in the order of its name selectors.
CardChoices ==
    {<< <<Text.JoesPizza>>, NoElement >>,
     << <<Text.Results>>, <<Text.JoesPizza>> >>,
     << NoElement, <<Text.HaywirePadded>> >>,
     << <<Text.ShortName>>, NoElement >>,
     << <<Text.BlankText>>, <<Text.JoesPizza>> >>,
     << NoElement, NoElement >>}

\* The detail view a click opens, and the business website behind it.
DetailChoices ==
    {[page |-> [name |-> <<Text.JoesPizza>>, website |-> <<Text.JoesWebsite>>,
                phone |-> <<Text.JoesPhone>>, address |-> <<Text.JoesAddress>>],
      site |-> [NoWebsiteData EXCEPT !.email = Text.JoesEmail,
                                     !.instagram = Text.InstagramUrl]],
     [page |-> [new_page EXCEPT !.name = <<Text.ShortNamePadded>>],
      site |-> NoWebsiteData]}

\* A listing: its card, whether scroll and click succeed, what they open.
ListingPool ==
    {[card_names |-> c, click_ok |-> k, detail |-> d.page, website_data |-> d.site,
      fails_at |-> "nothing"] :
        c \in CardChoices, k \in BOOLEAN, d \in DetailChoices}

\* The steps of processing a listing at which an exception can be raised
\* (a failing scroll or click is the listing's click_ok).
FaultPoints == {"page open", "name lookup", "field extraction", "enrichment"}

\* Listings of which some raise at one of these steps.
FaultyListingPool ==
    {[card_names |-> c, click_ok |-> k, detail |-> d.page, website_data |-> d.site,
      fails_at |-> f] :
        c \in {<< <<Text.JoesPizza>>, NoElement >>, << NoElement, <<Text.HaywirePadded>> >>},
        k \in BOOLEAN,
        d \in {x \in DetailChoices : x.page.website # NoElement},
        f \in FaultPoints \cup {"nothing"}}

\* How a call ends: it raises, or it returns a value.
Raise == [raised |-> TRUE, value |-> <<>>]
Return(value) == [raised |-> FALSE, value |-> value]

\* The first element that exists, in selector order.
first_element(elements) ==
    LET found == {i \in 1..Len(elements) : elements[i] # NoElement}
    IN IF found = {} THEN NoElement
       ELSE elements[CHOOSE i \in found : \A j \in found : i <= j]

\* main.py: the strings a name must not be (its two non-ASCII entries are
\* left out); the list for names read from the detail view is shorter.
invalid_names(from_detail) ==
    {Empty,
     <<"R","e","s","u","l","t","s">>,
     <<"r","e","s","u","l","t">>,
     <<"S","e","a","r","c","h">>,
     <<"M","a","p">>,
     <<"M","a","p","s">>,
     <<"G","o","o","g","l","e">>,
     <<"L","o","a","d","i","n","g">>,
     <<"E","r","r","o","r">>,
     <<"u","n","d","e","f","i","n","e","d">>,
     <<"n","u","l","l">>,
     <<"P","h","o","t","o","s">>,
     <<"V","i","e","w"," ","a","l","l">>,
     <<"S","e","e"," ","a","l","l">>}
    \cup (IF from_detail THEN {}
          ELSE {<<"W","e","b","s","i","t","e">>,
                <<"D","i","r","e","c","t","i","o","n","s">>,
                <<"C","a","l","l">>,
                <<"S","a","v","e">>,
                <<"M","o","r","e"," ","p","h","o","t","o","s">>,
                <<"L","a","t","e","s","t"," ","p","h","o","t","o","s">>})

\* main.py: the test a potential name must pass.
valid_name(potential_name, from_detail) ==
    /\ potential_name # Empty
    /\ potential_name \notin invalid_names(from_detail)
    /\ Len(potential_name) > 2

\* extract_website_hyper: the href, unless it is one of the map's own links.
extract_website(page) ==
    IF /\ page.website # NoElement
       /\ page.website[1] # Empty
       /\ ~IsSubstring(<<"g","o","o","g","l","e">>, page.website[1])
       /\ ~IsSubstring(<<"m","a","p","s">>, page.website[1])
    THEN page.website[1] ELSE Empty

\* extract_phone_hyper
extract_phone(page) ==
    IF page.phone # NoElement /\ Len(strip(page.phone[1])) > 5
    THEN strip(page.phone[1]) ELSE Empty

\* extract_address_hyper
extract_address(page) ==
    IF page.address # NoElement THEN strip(page.address[1]) ELSE Empty

\* HyperScraper.process_listing_hyper: <<lead>>, or <<>> for None.
process_listing_hyper(listing) ==
    LET page == new_page
        name_element == first_element(listing.card_names)
        name == IF name_element # NoElement THEN strip(name_element[1]) ELSE Empty
        named == [NewLead EXCEPT !.name = name]
        \* gather(return_exceptions=True): a field whose extractor raised is ""
        detailed == IF listing.click_ok
                    THEN [named EXCEPT !.website = IF listing.fails_at = "field extraction"
                                                   THEN Empty ELSE extract_website(page),
                                       !.phone = extract_phone(page),
                                       !.address = extract_address(page)]
                    ELSE named
        \* scrape_website_hyper returns the empty result when the fetch raises
        website_data == IF listing.fails_at = "enrichment" THEN NoWebsiteData
                        ELSE listing.website_data
        enriched == IF Truthy(detailed.website)
                    THEN [detailed EXCEPT !.email = website_data.email,
                                          !.instagram = website_data.instagram,
                                          !.facebook = website_data.facebook,
                                          !.twitter = website_data.twitter,
                                          !.tiktok = website_data.tiktok]
                    ELSE detailed
        body == IF listing.fails_at \in {"page open", "name lookup"} THEN Raise
                ELSE IF ~Truthy(name) THEN Return(<<>>)
                ELSE Return(<<Scored("HyperLead", enriched, FALSE)>>)
    IN IF body.raised THEN Return(<<>>) ELSE body

\* main.py, scrape_google_maps: the try block of the loop over the listings.
scrape_google_maps_try(listing) ==
    LET page == listing.detail
        card_names == SelectSeq(listing.card_names,
                          LAMBDA e : e # NoElement /\ valid_name(strip(e[1]), FALSE))
        card_name == IF card_names # <<>> THEN strip(card_names[1][1]) ELSE Empty
        clicked == listing.click_ok
        detail_name == IF /\ clicked
                          /\ page.name # NoElement
                          /\ valid_name(strip(page.name[1]), TRUE)
                       THEN strip(page.name[1]) ELSE Empty
        name == IF Truthy(card_name) THEN card_name ELSE detail_name
        business_data == [NewLead EXCEPT !.name = name]
    IN IF listing.fails_at = "name lookup" THEN Raise
       ELSE IF ~Truthy(name) THEN Return(<<>>)
       ELSE IF clicked
            THEN IF listing.fails_at = "field extraction" THEN Raise
                 ELSE Return(<<[business_data EXCEPT !.website = extract_website(page),
                                                     !.phone = extract_phone(page),
                                                     !.address = extract_address(page)]>>)
            ELSE Return(<<business_data>>)

\* A loop body without its `except Exception: continue`.
scrape_google_maps_listing_unguarded(listing) == scrape_google_maps_try(listing)

\* main.py, scrape_google_maps: the body of the loop over the listings; an
\* exception of the try block is printed and the loop continues.
scrape_google_maps_listing(listing) ==
    LET body == scrape_google_maps_try(listing)
    IN IF body.raised THEN Return(<<>>) ELSE body

\* backend/main.py, extract_business_data; its 'business_name' is `name` here.
extract_business_data(listing) ==
    LET page == listing.detail
        \* an exception of a name selector is passed over: `except: continue`
        business_name == IF /\ listing.fails_at # "name lookup"
                            /\ page.name # NoElement /\ Len(page.name[1]) > 2
                         THEN strip(page.name[1]) ELSE Empty
        found == [NewLead EXCEPT
                    !.name = business_name,
                    !.website = IF /\ listing.fails_at # "field extraction"
                                   /\ page.website # NoElement
                                THEN page.website[1] ELSE Empty,
                    !.phone = IF page.phone # NoElement THEN strip(page.phone[1]) ELSE Empty,
                    !.address = IF page.address # NoElement THEN strip(page.address[1]) ELSE Empty]
        quality == Points(Truthy(found.name), 1) + Points(Truthy(found.website), 3)
                   + Points(Truthy(found.phone), 2) + Points(Truthy(found.address), 1)
    IN IF ~listing.click_ok \/ ~Truthy(business_name) THEN Return(<<>>)
       ELSE Return(<<[found EXCEPT !.quality_score = Min(quality, 10)]>>)

\* What the scraper's listing processor returns for a listing.
process_listing(by, listing) ==
    CASE by = "hyper" -> process_listing_hyper(listing)
      [] by = "main" -> scrape_google_maps_listing(listing)
      [] by = "backend" -> extract_business_data(listing)

\* The results page shows up to MaxListings listings.
InitListing ==
    /\ Idle("listing")
    /\ scraper \in {"hyper", "main", "backend"}
    /\ \E n \in 0..MaxListings : listings \in [1..n -> ListingPool]
    /\ batch_results = <<>>
    /\ results = <<>>
    /\ scrape_error = FALSE

\* The results page shows up to MaxListings listings, of which some raise
\* while they are processed.
InitBatch ==
    /\ Idle("listing")
    /\ scraper \in {"hyper", "main", "backend"}
    /\ \E n \in 0..MaxListings : listings \in [1..n -> FaultyListingPool]
    /\ batch_results = <<>>
    /\ results = <<>>
    /\ scrape_error = FALSE

\* The next listing is processed; its result is kept if it is a lead with a
\* name.  gather(return_exceptions=True) hands an exception of a hyper or
\* backend processor over as a result, which is no lead; an exception of
\* the loop body of main.py ends the loop.
ProcessListing ==
    /\ ~scrape_error
    /\ Len(batch_results) < Len(listings)
    /\ LET call == process_listing(scraper, listings[Len(batch_results) + 1])
           result == call.value
       IN IF call.raised /\ scraper = "main"
          THEN /\ scrape_error' = TRUE
               /\ UNCHANGED <<batch_results, results>>
          ELSE /\ batch_results' = Append(batch_results, result)
               /\ results' = IF result # <<>> /\ Truthy(result[1].name)
                             THEN Append(results, result[1]) ELSE results
               /\ UNCHANGED scrape_error
    /\ UNCHANGED <<scraper, listings, notListingVars>>

SpecListing == InitListing /\ [][ProcessListing]_vars

SpecBatch == InitBatch /\ [][ProcessListing]_vars

\* The name plausibility filter: at least 3 characters after trimming, and
\* not one of the UI strings.
PlausibleName(name) ==
    /\ Len(strip(name)) >= 3
    /\ strip(name) \notin invalid_names(FALSE)

\* C5: every lead in the returned list has a name that passes the name
\* plausibility filter.
C5_ReturnedNamesPlausible ==
    \A i \in 1..Len(results) : PlausibleName(results[i].name)

\* The name the listing's card shows, if its first name element is plausible.
CardShowsPlausibleName(listing) ==
    /\ listing.card_names[1] # NoElement
    /\ PlausibleName(listing.card_names[1][1])

\* C8: a listing whose card shows a plausible name and whose detail view does
\* not open gets a lead with only the name populated, which is in the
\* returned list; a scraper that scores its leads gives it quality_score 2.
C8_NameOnlyLeadKept ==
    \A i \in 1..Len(batch_results) :
        (CardShowsPlausibleName(listings[i]) /\ ~listings[i].click_ok) =>
            /\ batch_results[i] # <<>>
            /\ LET kept == batch_results[i][1]
                   score == IF scraper = "main" THEN 0 ELSE 2
               IN /\ kept = [NewLead EXCEPT !.name = strip(listings[i].card_names[1][1]),
                                            !.quality_score = score]
                  /\ \E j \in 1..Len(results) : results[j] = kept

\* C28: the lead that process_listing_hyper makes of a listing whose detail
\* view opened holds the website, phone and address that the extractors find
\* in that detail view.
C28_ExtractedFromDetailView ==
    \A i \in 1..Len(batch_results) :
        (scraper = "hyper" /\ listings[i].click_ok /\ batch_results[i] # <<>>) =>
            /\ batch_results[i][1].website = extract_website(listings[i].detail)
            /\ batch_results[i][1].phone = extract_phone(listings[i].detail)
            /\ batch_results[i][1].address = extract_address(listings[i].detail)

\* The loop over the listings has ended.
LoopEnded == scrape_error \/ Len(batch_results) = Len(listings)

\* What the listing's processor returns when nothing raises.
Unfaulted(listing) ==
    process_listing(scraper, [listing EXCEPT !.fails_at = "nothing"]).value

\* The leads with a name among the results of the processors, in order.
RECURSIVE NamedLeads(_)
NamedLeads(rs) ==
    IF rs = <<>> THEN <<>>
    ELSE (IF rs[1] # <<>> /\ Truthy(rs[1][1].name) THEN rs[1] ELSE <<>>)
         \o NamedLeads(Tail(rs))

\* Every listing at which nothing raises is processed, with the result it
\* has when no listing raises, and the returned list holds the named leads.
OthersProcessed ==
    /\ ~scrape_error
    /\ Len(batch_results) = Len(listings)
    /\ \A i \in 1..Len(listings) :
          listings[i].fails_at = "nothing" => batch_results[i] = Unfaulted(listings[i])
    /\ results = NamedLeads(batch_results)

max_retries == 5
\* circuit_breaker['threshold']
threshold == 10
\* A cached row is valid while younger than this many seconds.
CacheValidSeconds == 21600

\* The arguments of ultimate_scrape calls.
UltimateCalls ==
    [business_type : {Empty, Text.BlankText, <<"g","y","m">>},
     location : {Empty, <<"A","u","s","t","i","n",","," ","T","X">>},
     max_results : {1, 10},
     google_api_key : BOOLEAN]

\* Leads as scraping and as the Places API produce them.
ScrapedLead == [name |-> Text.JoesPizza, source |-> "scraping"]
ApiLead == [name |-> Text.Haywire, source |-> "google_places_api"]

\* What one scrape_attempt can end with: an exception, or its results.
AttemptResults ==
    {[raised |-> e, results |-> <<>>] : e \in {"goto failed", "No listings found"}}
    \cup {[raised |-> "nothing", results |-> r] :
             r \in {<<>>, <<ScrapedLead>>, <<ScrapedLead, ScrapedLead>>}}

\* The rows the leads_cache table can hold for the query: none, or leads
\* with the age of the row in seconds.
CachedRows ==
    {<<>>, <<[leads |-> <<ScrapedLead>>, age |-> 3600]>>,
           <<[leads |-> <<ScrapedLead>>, age |-> CacheValidSeconds]>>}

\* UltimateScraper.get_cached_results: the leads, or <<>> for None.
get_cached_results(row) ==
    IF row # <<>> /\ row[1].age < CacheValidSeconds THEN row[1].leads ELSE <<>>

\* EnhancedErrorHandler.is_circuit_open, for the failures one call can
\* accumulate.
is_circuit_open(n) == n >= threshold

\* ultimate_scrape is called.
InitUltimate ==
    /\ Idle("ultimate")
    /\ ultimate_pc = "start"
    /\ ultimate_call \in UltimateCalls
    /\ leads_cache \in CachedRows
    /\ attempt = 0
    /\ failures = 0
    /\ activity = NoActivity
    /\ outcome = [kind |-> "running", leads |-> <<>>]
    /\ scraped_leads = <<>>

\* A variant of ultimate_scrape that rejects an empty business_type or
\* location before it initializes anything.
ultimate_scrape_validating(ok) ==
    /\ ultimate_pc = "start"
    /\ IF strip(ultimate_call.business_type) = Empty
          \/ strip(ultimate_call.location) = Empty
       THEN /\ ultimate_pc' = "done"
            /\ outcome' = [kind |-> "InvalidQuery", leads |-> <<>>]
       ELSE IF ok
            THEN ultimate_pc' = "lookup" /\ UNCHANGED outcome
            ELSE /\ ultimate_pc' = "done"
                 /\ outcome' = [kind |-> "error", leads |-> <<>>]
    /\ UNCHANGED <<ultimate_call, leads_cache, attempt, failures, activity,
                   scraped_leads, notUltimateVars>>

\* ultimate_scrape: scraper.initialize() launches the browser and fills the
\* context pool, or raises.
ultimate_scrape(ok) ==
    /\ ultimate_pc = "start"
    /\ IF ok
       THEN ultimate_pc' = "lookup" /\ UNCHANGED outcome
       ELSE /\ ultimate_pc' = "done"
            /\ outcome' = [kind |-> "error", leads |-> <<>>]
    /\ UNCHANGED <<ultimate_call, leads_cache, attempt, failures, activity,
                   scraped_leads, notUltimateVars>>

\* scrape_with_fallback: the cache lookup.
CheckCache ==
    /\ ultimate_pc = "lookup"
    /\ LET cached_results == get_cached_results(leads_cache)
       IN IF cached_results # <<>>
          THEN /\ ultimate_pc' = "done"
               /\ outcome' = [kind |-> "leads", leads |-> cached_results]
          ELSE ultimate_pc' = "scrape" /\ UNCHANGED outcome
    /\ activity' = IF get_cached_results(leads_cache) # <<>>
                   THEN [activity EXCEPT !.cache_hits = @ + 1] ELSE activity
    /\ UNCHANGED <<ultimate_call, leads_cache, attempt, failures, scraped_leads,
                   notUltimateVars>>

\* One iteration of execute_with_retry around scrape_attempt, and what
\* scrape_with_fallback does with a result.
ScrapeAttempt(result) ==
    /\ ultimate_pc = "scrape"
    /\ IF is_circuit_open(failures) \/ result.raised # "nothing"
       THEN /\ failures' = failures + 1
            /\ attempt' = attempt + 1
            /\ ultimate_pc' = IF attempt + 1 < max_retries THEN "scrape" ELSE "fallback"
            /\ UNCHANGED <<leads_cache, outcome, scraped_leads>>
       ELSE /\ failures' = 0
            /\ scraped_leads' = result.results
            /\ UNCHANGED attempt
            /\ IF /\ result.results # <<>>
                  /\ 2 * Len(result.results) >= ultimate_call.max_results
               THEN /\ leads_cache' = <<[leads |-> result.results, age |-> 0]>>
                    /\ ultimate_pc' = "done"
                    /\ outcome' = [kind |-> "leads", leads |-> result.results]
               ELSE /\ ultimate_pc' = "fallback"
                    /\ UNCHANGED <<leads_cache, outcome>>
    /\ activity' = IF is_circuit_open(failures)
                   THEN [activity EXCEPT !.faults = @ + 1]
                   ELSE [activity EXCEPT !.checkouts = @ + 1, !.navigations = @ + 1,
                                         !.faults = @ + Points(result.raised = "goto failed", 1)]
    /\ UNCHANGED <<ultimate_call, notUltimateVars>>

\* scrape_with_fallback: the Google Places API fallback.
ApiFallback(api_results) ==
    /\ ultimate_pc = "fallback"
    /\ ultimate_call.google_api_key \/ api_results = <<>>
    /\ activity' = IF ultimate_call.google_api_key
                   THEN [activity EXCEPT !.api_requests = @ + 1] ELSE activity
    /\ LET api_leads == SubSeq(api_results, 1, Min(Len(api_results), ultimate_call.max_results))
       IN IF api_results # <<>>
          THEN /\ leads_cache' = <<[leads |-> api_leads, age |-> 0]>>
               /\ outcome' = [kind |-> "leads", leads |-> api_leads]
          ELSE /\ outcome' = [kind |-> "leads", leads |-> <<>>]
               /\ UNCHANGED leads_cache
    /\ ultimate_pc' = "done"
    /\ UNCHANGED <<ultimate_call, attempt, failures, scraped_leads, notUltimateVars>>

UltimateNext ==
    \/ \E ok \in BOOLEAN : ultimate_scrape(ok)
    \/ CheckCache
    \/ \E result \in AttemptResults : ScrapeAttempt(result)
    \/ \E api_results \in {<<>>, <<ApiLead>>, <<ApiLead, ApiLead>>} :
          ApiFallback(api_results)

SpecUltimate == InitUltimate /\ [][UltimateNext]_vars

\* The call's business_type or location is empty after trimming.
EmptyQuery ==
    \/ strip(ultimate_call.business_type) = Empty
    \/ strip(ultimate_call.location) = Empty

C15_FaultIsNotZeroResults ==
    (ultimate_pc = "done" /\ activity.faults = max_retries) =>
        outcome # [kind |-> "leads", leads |-> <<>>]

\* C26: when the scraping of a finished call returned at least one lead,
\* the call returned a non-empty list of leads.
C26_ScrapedLeadsNotDiscarded ==
    (ultimate_pc = "done" /\ scraped_leads # <<>>) => outcome.leads # <<>>

\* ------------------------------------------------------------------------
\* What the entry points return (hyper_scrape, turbo_scrape,
\* ultimate_scrape, AsyncBusinessScraper.start_scraping)
\* ------------------------------------------------------------------------

\* At most this many leads are collected.
MaxLeads == 3

\* Scores, processing times and ratings of collected leads.
LeadMetrics ==
    [quality_score : {2, 8}, processing_time : {1, 2}, rating : {0, 4}]

\* The key each entry point sorts by (with reverse=True).
sort_key(by, l) ==
    CASE by = "hyper_scrape" -> <<l.quality_score, 0 - l.processing_time>>
      [] by = "ultimate_scrape" -> <<l.quality_score, l.rating>>
      [] OTHER -> <<l.quality_score, 0>>

\* Tuple comparison a < b.
key_less(a, b) == a[1] < b[1] \/ (a[1] = b[1] /\ a[2] < b[2])

\* list.sort(key=..., reverse=True): descending by key, equal keys in their
\* original order.
RECURSIVE list_sort_reverse(_, _, _)
list_sort_reverse(by, rest, sorted) ==
    IF rest = <<>> THEN sorted
    ELSE LET x == Head(rest)
             after == {i \in 1..Len(sorted) : key_less(sort_key(by, sorted[i]), sort_key(by, x))}
             at == IF after = {} THEN Len(sorted) + 1
                   ELSE CHOOSE i \in after : \A j \in after : i <= j
         IN list_sort_reverse(by, Tail(rest),
                SubSeq(sorted, 1, at - 1) \o <<x>> \o SubSeq(sorted, at, Len(sorted)))

\* An entry point's scraper has collected its leads.
InitExport ==
    /\ Idle("export")
    /\ entry_point \in {"hyper_scrape", "turbo_scrape", "ultimate_scrape", "start_scraping"}
    /\ \E n \in 0..MaxLeads :
         \E m \in [1..n -> LeadMetrics] :
            leads = [i \in 1..n |->
                        [listing |-> i, quality_score |-> m[i].quality_score,
                         processing_time |-> m[i].processing_time,
                         rating |-> m[i].rating]]
    /\ returned = [done |-> FALSE, leads |-> <<>>]

\* The entry point returns: hyper, turbo and ultimate export `leads`, which
\* sorts that list in place; start_scraping sorts a filtered copy and
\* returns `leads` itself.
ReturnLeads ==
    /\ ~returned.done
    /\ LET high_quality_leads ==
               list_sort_reverse(entry_point,
                   SelectSeq(leads, LAMBDA l : l.quality_score >= 6), <<>>)
       IN returned' =
            [done |-> TRUE,
             leads |-> IF entry_point = "start_scraping" THEN leads
                       ELSE list_sort_reverse(entry_point, leads, <<>>)]
    /\ UNCHANGED <<entry_point, leads, notExportVars>>

SpecExport == InitExport /\ [][ReturnLeads]_vars

\* C11: the returned list is ordered by quality_score non-increasing, and
\* leads with equal quality_score are in discovery order.
C11_ReturnedSortedStable ==
    returned.done =>
        \A i, j \in 1..Len(returned.leads) :
            i < j =>
                /\ returned.leads[i].quality_score >= returned.leads[j].quality_score
                /\ (returned.leads[i].quality_score = returned.leads[j].quality_score
                    => returned.leads[i].listing < returned.leads[j].listing)

\* ------------------------------------------------------------------------
\* Website scraping (scrape_website_hyper, scrape_website_ultimate)
\* ------------------------------------------------------------------------

\* At most this many links and addresses stand in the fetched html.
MaxTokens == 2

\* The links and addresses a page's html can hold.
HtmlTokens ==
    {Text.JoesEmail, Text.InstagramUrl, Text.TwitterUrl, Text.TwitterUrlCapital,
     Text.TwitterUrlWww, Text.XUrl}

\* What session.get(url) can do: respond, time out, or raise.
Responses ==
    {[kind |-> "response", status |-> st, html |-> h] :
        st \in {200, 404, 500},
        h \in UNION {[1..n -> HtmlTokens] : n \in 0..MaxTokens}}
    \cup {[kind |-> k, status |-> 0, html |-> <<>>] : k \in {"timeout", "error"}}

\* s.startswith(prefix)
startswith(s, prefix) ==
    Len(s) >= Len(prefix) /\ SubSeq(s, 1, Len(prefix)) = prefix

\* s.replace(old, new)
RECURSIVE str_replace(_, _, _)
str_replace(s, old, new) ==
    IF Len(s) < Len(old) THEN s
    ELSE IF startswith(s, old)
         THEN new \o str_replace(SubSeq(s, Len(old) + 1, Len(s)), old, new)
         ELSE <<Head(s)>> \o str_replace(Tail(s), old, new)

\* The hosts each platform's pattern accepts.
PlatformHosts(platform) ==
    CASE platform = "instagram" -> {<<"i","n","s","t","a","g","r","a","m",".","c","o","m","/">>}
      [] platform = "facebook" -> {<<"f","a","c","e","b","o","o","k",".","c","o","m","/">>}
      [] platform = "tiktok" -> {<<"t","i","k","t","o","k",".","c","o","m","/","@">>}
      [] platform = "twitter" -> {<<"t","w","i","t","t","e","r",".","c","o","m","/">>,
                                  <<"x",".","c","o","m","/">>}

\* The pattern https?://(?:www\.)?host/name with re.IGNORECASE matches the
\* token.
pattern_matches(platform, token) ==
    \E scheme \in {<<"h","t","t","p",":","/","/">>, <<"h","t","t","p","s",":","/","/">>} :
      \E www \in {<<>>, <<"w","w","w",".">>} :
        \E host \in PlatformHosts(platform) :
            /\ startswith(lower(token), scheme \o www \o host)
            /\ Len(token) > Len(scheme \o www \o host)

\* re.search(pattern, html, re.IGNORECASE): group(0) of the first match, or "".
re_search(platform, html) ==
    LET found == SelectSeq(html, LAMBDA token :
                     IF platform = "email"
                     THEN \E i \in 1..Len(token) : token[i] = "@"
                     ELSE pattern_matches(platform, token))
    IN IF found = <<>> THEN Empty ELSE found[1]

\* The result built from the regex matches.
extract_contacts(html) ==
    [email |-> re_search("email", html),
     instagram |-> re_search("instagram", html),
     facebook |-> re_search("facebook", html),
     twitter |-> str_replace(re_search("twitter", html),
                     <<"t","w","i","t","t","e","r",".","c","o","m">>,
                     <<"x",".","c","o","m">>),
     tiktok |-> re_search("tiktok", html)]

\* The body of the try block: what it returns, or that it raises.
fetch_and_extract(r) ==
    [raised |-> r.kind # "response",
     data |-> IF r.kind = "response" /\ r.status = 200
              THEN extract_contacts(r.html) ELSE NoWebsiteData]

\* A variant of scrape_website that lets the exception of the fetch out.
scrape_website_unguarded(by, u, cached, r) ==
    IF u = Empty
    THEN [done |-> TRUE, fetched |-> FALSE, raised |-> FALSE, data |-> NoWebsiteData]
    ELSE IF by = "hyper" /\ cached # <<>>
         THEN [done |-> TRUE, fetched |-> FALSE, raised |-> FALSE, data |-> cached[1]]
         ELSE [done |-> TRUE, fetched |-> TRUE,
               raised |-> fetch_and_extract(r).raised,
               data |-> fetch_and_extract(r).data]

\* scrape_website_hyper / scrape_website_ultimate: an empty url and (hyper) a
\* cached result are answered without a fetch; an exception in the try block
\* gives the empty result.
scrape_website(by, u, cached, r) ==
    IF u = Empty
    THEN [done |-> TRUE, fetched |-> FALSE, raised |-> FALSE, data |-> NoWebsiteData]
    ELSE IF by = "hyper" /\ cached # <<>>
         THEN [done |-> TRUE, fetched |-> FALSE, raised |-> FALSE, data |-> cached[1]]
         ELSE [done |-> TRUE, fetched |-> TRUE, raised |-> FALSE,
               data |-> IF fetch_and_extract(r).raised THEN NoWebsiteData
                        ELSE fetch_and_extract(r).data]

\* A website scraper is about to be called.  A url that is not a valid URL
\* makes session.get raise.
InitEnrich ==
    /\ Idle("enrich")
    /\ enrich_by \in {"hyper", "ultimate"}
    /\ url \in {Empty, Text.JoesWebsite, Text.NotAPhone}
    /\ site_cache \in
          (IF enrich_by = "hyper"
           THEN {<<>>, <<[NoWebsiteData EXCEPT !.email = Text.JoesEmail]>>}
           ELSE {<<>>})
    /\ response \in
          (IF url = Text.NotAPhone
           THEN {[kind |-> "error", status |-> 0, html |-> <<>>]}
           ELSE Responses)
    /\ site_result = [done |-> FALSE, fetched |-> FALSE, raised |-> FALSE,
                      data |-> NoWebsiteData]

\* The website scraper runs; hyper caches the result of a 200 response.
ScrapeWebsite ==
    /\ ~site_result.done
    /\ site_result' = scrape_website(enrich_by, url, site_cache, response)
    /\ site_cache' = IF /\ enrich_by = "hyper"
                        /\ site_result'.fetched
                        /\ response.kind = "response" /\ response.status = 200
                     THEN <<site_result'.data>> ELSE site_cache
    /\ UNCHANGED <<enrich_by, url, response, notEnrichVars>>

SpecEnrich == InitEnrich /\ [][ScrapeWebsite]_vars

\* The fetch of the url fails: no 2xx response.
FetchFails ==
    response.kind # "response" \/ response.status \notin 200..299

\* C12: when the fetch of the url fails (non-2xx status, timeout, exception,
\* malformed url), the website scraper returns the all-empty result and
\* raises nothing.
C12_EnricherFailsSoft ==
    (site_result.done /\ site_result.fetched /\ FetchFails) =>
        (~site_result.raised /\ site_result.data = NoWebsiteData)

\* A fetch that answered 500 with a page holding an address gave the empty
\* result.
C12_Witness ==
    /\ site_result.done /\ site_result.fetched
    /\ response.kind = "response" /\ response.status = 500
    /\ response.html = <<Text.JoesEmail>>
    /\ site_result.data = NoWebsiteData

\* C13: no returned twitter value has the host twitter.com, in any letter
\* case; a matched twitter.com link comes back with host x.com.
C13_TwitterCanonical ==
    site_result.done =>
        ~IsSubstring(<<"t","w","i","t","t","e","r",".","c","o","m">>,
                     lower(site_result.data.twitter))

\* ------------------------------------------------------------------------
\* The browser context pools (HyperBrowserManager, turbo's BrowserPool,
\* UltimateBrowserManager, backend's BrowserPool) and the scrape calls that
\* borrow from them
\* ------------------------------------------------------------------------

\* pool_size of the queue-based pools (8 hyper, 5 turbo, 10 ultimate).
PoolSize == 2
\* Scrape calls that run concurrently against one pool.
NumCalls == 2
\* max_contexts of backend's pool (3), kept below the number of concurrent
\* jobs so that a release can meet a full pool.
MaxContexts == NumCalls - 1
\* Contexts backend's browser creates at most.
MaxCreated == 3

\* browser.new_context(): no page beyond the first (context.pages[1:] is
\* empty), no cookie.
new_context(id) == [id |-> id, extra_pages |-> FALSE, cookies |-> FALSE]

\* A scrape call that has just been made.  `raised` tells how the body of
\* its last attempt ended.
NewCall == [pc |-> "start", context |-> <<>>, raised |-> FALSE]

\* initialize() fills the queue with pool_size contexts; backend creates
\* its contexts on demand.
InitPool ==
    /\ Idle("pool")
    /\ pool_by \in {"hyper", "turbo", "ultimate", "backend"}
    /\ context_queue = IF pool_by = "backend" THEN <<>>
                       ELSE [i \in 1..PoolSize |-> new_context(i)]
    /\ calls = [c \in 1..NumCalls |-> NewCall]
    /\ created = IF pool_by = "backend" THEN 0 ELSE PoolSize
    /\ closed = {}

\* get_context: the queue-based pools wait for the head of the queue;
\* backend pops its list or has the browser create a context.
GetContext(c) ==
    /\ calls[c].pc = "start"
    /\ IF pool_by = "backend" /\ context_queue = <<>>
       THEN /\ created < MaxCreated
            /\ created' = created + 1
            /\ calls' = [calls EXCEPT ![c].pc = "body",
                                      ![c].context = <<new_context(created + 1)>>]
            /\ UNCHANGED context_queue
       ELSE /\ context_queue # <<>>
            /\ LET at == IF pool_by = "backend" THEN Len(context_queue) ELSE 1
               IN /\ calls' = [calls EXCEPT ![c].pc = "body",
                                            ![c].context = <<context_queue[at]>>]
                  /\ context_queue' = [i \in 1..(Len(context_queue) - 1) |->
                                          IF i < at THEN context_queue[i]
                                          ELSE context_queue[i + 1]]
            /\ UNCHANGED created
    /\ UNCHANGED <<pool_by, closed, notPoolVars>>

\* A scrape body without `finally`: an exception leaves the call at once.
after_body_without_finally(raises) == IF raises THEN "raised" ELSE "finally"

\* Where the call stands after the body of its try statement: the finally
\* clause runs whether or not the body raised.
after_body(raises) == "finally"

\* The body between checkout and checkin: the page of the search is
\* opened and navigated, listings open pages of their own, which an
\* exception leaves open, and the body returns or raises at any step.  The
\* sites visited set cookies.
ScrapeBody(c, raises, pages_left, cookies) ==
    /\ calls[c].pc = "body"
    /\ LET context == calls[c].context[1]
       IN calls' = [calls EXCEPT
                       ![c].pc = after_body(raises),
                       ![c].raised = raises,
                       ![c].context = <<[context EXCEPT
                                            !.extra_pages = @ \/ pages_left,
                                            !.cookies = @ \/ cookies]>>]
    /\ UNCHANGED <<pool_by, context_queue, created, closed, notPoolVars>>

\* return_context, up to its put: every page but the first is closed,
\* unless a close() raises, which is passed over; hyper and ultimate clear
\* the cookies unless that raises; turbo clears nothing; backend's release
\* leaves the context as it is.
return_context(by, context, close_ok, clear_ok) ==
    IF by = "backend" THEN context
    ELSE [context EXCEPT
             !.extra_pages = @ /\ ~close_ok,
             !.cookies = IF by \in {"hyper", "ultimate"} /\ clear_ok THEN FALSE ELSE @]

\* The finally clause: the context goes back to the pool (backend closes it
\* when its list is full).  After an exception execute_with_retry calls
\* scrape_attempt again while it has attempts left.
ReturnContext(c, close_ok, clear_ok, attempts_left) ==
    /\ calls[c].pc = "finally"
    /\ LET context == return_context(pool_by, calls[c].context[1], close_ok, clear_ok)
       IN IF pool_by = "backend" /\ Len(context_queue) >= MaxContexts
          THEN closed' = closed \cup {context.id} /\ UNCHANGED context_queue
          ELSE context_queue' = Append(context_queue, context) /\ UNCHANGED closed
    /\ LET again == pool_by = "ultimate" /\ calls[c].raised /\ attempts_left
       IN calls' = [calls EXCEPT
                       ![c].context = <<>>,
                       ![c].pc = IF again THEN "start" ELSE "done"]
    /\ UNCHANGED <<pool_by, created, notPoolVars>>

\* The caller makes its next scrape call.
NextCall(c) ==
    /\ calls[c].pc = "done"
    /\ calls' = [calls EXCEPT ![c] = NewCall]
    /\ UNCHANGED <<pool_by, context_queue, created, closed, notPoolVars>>

PoolNext ==
    \E c \in 1..NumCalls :
        \/ GetContext(c)
        \/ \E raises \in BOOLEAN, pages_left \in BOOLEAN, cookies \in BOOLEAN :
              ScrapeBody(c, raises, pages_left, cookies)
        \/ \E close_ok \in BOOLEAN, clear_ok \in BOOLEAN, attempts_left \in BOOLEAN :
              ReturnContext(c, close_ok, clear_ok, attempts_left)
        \/ NextCall(c)

SpecPool == InitPool /\ [][PoolNext]_vars

\* The calls that are between checkout and checkin.
Borrowers == {c \in 1..NumCalls : calls[c].pc \in {"body", "finally"}}
\* The ids of the contexts in the pool, and of those the borrowers hold.
InPool == {context_queue[i].id : i \in 1..Len(context_queue)}
Borrowed == {calls[c].context[1].id : c \in Borrowers}
\* The calls that have finished, by returning or by an exception.
Finished == {c \in 1..NumCalls : calls[c].pc \in {"done", "raised"}}

\* Every context is in one place only.
NoContextTwice ==
    /\ Cardinality(InPool) = Len(context_queue)
    /\ Cardinality(Borrowed) = Cardinality(Borrowers)
    /\ InPool \cap Borrowed = {}

\* C16 as stated: the contexts in the pool and the borrowed ones are
\* together the contexts the pool was given (pool_size of them in the
\* queue-based pools, the contexts created so far in backend's), no
\* finished call holds a context, and every context is in the pool or with
\* a call that has not finished.
C16_ContextsConserved ==
    /\ NoContextTwice
    /\ Len(context_queue) + Cardinality(Borrowers) = created
    /\ pool_by # "backend" => created = PoolSize
    /\ \A c \in Finished : calls[c].context = <<>>
    /\ InPool \cup Borrowed = 1..created

\* C16: in the queue-based pools the contexts in the pool and the borrowed
\* ones are pool_size together, and once a call has finished the context
\* it borrowed is back in the pool; backend's pool holds at most
\* max_contexts, every context its browser created is in the pool, borrowed
\* or closed, and once a call has finished the context it borrowed is back
\* in the pool or closed.
C16_CheckinExceptionSafe ==
    /\ NoContextTwice
    /\ \A c \in Finished : calls[c].context = <<>>
    /\ IF pool_by = "backend"
       THEN /\ Len(context_queue) <= MaxContexts
            /\ InPool \cup Borrowed \cup closed = 1..created
            /\ closed \cap (InPool \cup Borrowed) = {}
       ELSE /\ Len(context_queue) + Cardinality(Borrowers) = PoolSize
            /\ InPool \cup Borrowed = 1..PoolSize

\* C16: one ultimate scrape call has finished by an exception and the
\* attempt of another has raised and is about to be retried; no call holds
\* a context, and every context is in the pool.
C16_Witness ==
    /\ pool_by = "ultimate"
    /\ \E c \in Finished : calls[c].raised
    /\ \E c \in 1..NumCalls : calls[c].pc = "start" /\ calls[c].raised
    /\ Borrowers = {}
    /\ Len(context_queue) = PoolSize

\* C17: every context in the pool has at most its first page open and no
\* cookies.
C17_PooledContextsReset ==
    \A i \in 1..Len(context_queue) :
        ~context_queue[i].extra_pages /\ ~context_queue[i].cookies

\* ------------------------------------------------------------------------
\* The fan-out over the listings (scrape_google_maps_hyper,
\* scrape_google_maps_turbo, scrape_google_maps_ultimate): batches of
\* process_with_semaphore tasks
\* ------------------------------------------------------------------------

\* The value the semaphore is created with (8 turbo, 12 hyper, 15 ultimate).
SemaphoreValue == 2
\* batch_size (15 turbo, 20 hyper, 25 ultimate): more than the semaphore's
\* value in each of them.
batch_size == 3
\* At most this many listings are found, and at most as many asked for.
MaxTasks == 6

\* The listings are found and the semaphore is created.
InitFanout ==
    /\ Idle("fanout")
    /\ semaphore = SemaphoreValue
    /\ \E n \in 0..MaxTasks : tasks = [i \in 1..n |-> "pending"]
    /\ batch_start = 0
    /\ fanout_max_results \in 1..MaxTasks

\* The loop over the batches, for i in range(0, min(len(listings),
\* max_results), batch_size): when the gather of the previous batch has
\* returned, the tasks of listings[i:i+batch_size] are created.
StartBatch ==
    /\ batch_start < Min(Len(tasks), fanout_max_results)
    /\ \A i \in 1..Len(tasks) : tasks[i] \in {"pending", "done"}
    /\ tasks' = [i \in 1..Len(tasks) |->
                    IF i > batch_start /\ i <= batch_start + batch_size
                    THEN "waiting" ELSE tasks[i]]
    /\ batch_start' = batch_start + batch_size
    /\ UNCHANGED <<semaphore, fanout_max_results, notFanoutVars>>

\* A task that takes no notice of the semaphore.
acquire_unbounded(value) == TRUE

\* Semaphore.acquire returns at once while the value is positive, and
\* waits otherwise.
acquire(value) == value > 0

\* `async with semaphore`: the task enters the listing processor.
EnterProcessor(t) ==
    /\ tasks[t] = "waiting"
    /\ acquire(semaphore)
    /\ semaphore' = semaphore - 1
    /\ tasks' = [tasks EXCEPT ![t] = "processing"]
    /\ UNCHANGED <<batch_start, fanout_max_results, notFanoutVars>>

\* The listing processor returns or raises; leaving the `async with` block
\* releases the semaphore either way.
LeaveProcessor(t) ==
    /\ tasks[t] = "processing"
    /\ semaphore' = semaphore + 1
    /\ tasks' = [tasks EXCEPT ![t] = "done"]
    /\ UNCHANGED <<batch_start, fanout_max_results, notFanoutVars>>

FanoutNext ==
    \/ StartBatch
    \/ \E t \in 1..Len(tasks) : EnterProcessor(t) \/ LeaveProcessor(t)

SpecFanout == InitFanout /\ [][FanoutNext]_vars

\* The listings that are inside the listing processor.
InFlight == {t \in 1..Len(tasks) : tasks[t] = "processing"}

\* C18: the listings being processed at the same time are at most as many
\* as the semaphore's value.
C18_ConcurrencyBounded ==
    Cardinality(InFlight) <= SemaphoreValue

\* C18: as many listings as the semaphore's value are being processed and
\* another task of the batch waits for the semaphore.
C18_Witness ==
    /\ Cardinality(InFlight) = SemaphoreValue
    /\ \E t \in 1..Len(tasks) : tasks[t] = "waiting"

\* C27: the listings that the loop made a task for are at most
\* min(number of listings, max_results).
C27_AtMostMaxResultsProcessed ==
    Cardinality({t \in 1..Len(tasks) : tasks[t] # "pending"})
        <= Min(Len(tasks), fanout_max_results)

\* ------------------------------------------------------------------------
\* The throttle of the website fetches (async_scraper.py, SmartRateLimiter;
\* hyper_scraper.py, scrape_website_hyper).  Time is in ticks of half a
\* second.
\* ------------------------------------------------------------------------

\* SmartRateLimiter.base_delay (0.5 s) and max_delay (5.0 s), in ticks.
base_delay == 1
max_delay == 10
\* The window of 60 seconds, shortened.
Window == 6
\* SmartRateLimiter.requests_per_minute (60), scaled to the window.
requests_per_minute == 2
\* Website scrapes that run concurrently.
NumCallers == 3
\* The clock stops here.
MaxNow == 8

\* random.uniform(0, 0.5), in ticks.
Jitter == {0, 1}

\* SmartRateLimiter.wait: the delay before the randomization is added.
dynamic_delay(times) ==
    IF Len(times) >= requests_per_minute
    THEN Min(max_delay, base_delay * 2) ELSE base_delay

InitThrottle ==
    /\ Idle("throttle")
    /\ limiter_by \in {"async", "hyper"}
    /\ now = 0
    /\ request_times = <<>>
    /\ callers = [c \in 1..NumCallers |->
                     [pc |-> "idle", called |-> 0, wake |-> 0, delay |-> 0]]
    /\ fetch_log = <<>>

\* A website scrape reaches its fetch.  scrape_website_async calls
\* rate_limiter.wait(), which reads the clock, drops the request times of a
\* minute ago and before, picks the delay and goes to sleep;
\* scrape_website_hyper has no limiter and goes on to session.get at once.
Wait(c, jitter) ==
    /\ callers[c].pc = "idle"
    /\ IF limiter_by = "async"
       THEN LET kept == SelectSeq(request_times, LAMBDA t : now - t < Window)
                delay == dynamic_delay(kept)
            IN /\ request_times' = kept
               /\ callers' = [callers EXCEPT ![c] =
                                 [pc |-> "sleeping", called |-> now,
                                  wake |-> now + delay + jitter, delay |-> delay]]
       ELSE /\ jitter = 0
            /\ callers' = [callers EXCEPT ![c] =
                              [pc |-> "sleeping", called |-> now, wake |-> now,
                               delay |-> 0]]
            /\ UNCHANGED request_times
    /\ UNCHANGED <<limiter_by, now, fetch_log, notThrottleVars>>

\* The sleep is over: wait() appends the time it read when it was called,
\* and the fetch starts.
StartFetch(c) ==
    /\ callers[c].pc = "sleeping"
    /\ now >= callers[c].wake
    /\ request_times' = IF limiter_by = "async"
                        THEN Append(request_times, callers[c].called)
                        ELSE request_times
    /\ fetch_log' = Append(fetch_log, [called |-> callers[c].called, start |-> now,
                                       delay |-> callers[c].delay])
    /\ callers' = [callers EXCEPT ![c].pc = "fetched"]
    /\ UNCHANGED <<limiter_by, now, notThrottleVars>>

\* Half a second passes.
Tick ==
    /\ now < MaxNow
    /\ now' = now + 1
    /\ UNCHANGED <<limiter_by, request_times, callers, fetch_log, notThrottleVars>>

ThrottleNext ==
    \/ \E c \in 1..NumCallers, jitter \in Jitter : Wait(c, jitter)
    \/ \E c \in 1..NumCallers : StartFetch(c)
    \/ Tick

SpecThrottle == InitThrottle /\ [][ThrottleNext]_vars

\* The fetches that had started within the window before fetch k reached
\* its delay.
StartedBefore(k) ==
    {j \in 1..Len(fetch_log) :
        /\ fetch_log[j].start < fetch_log[k].called
        /\ fetch_log[k].called - fetch_log[j].start < Window}

\* C19: a fetch that requests_per_minute or more fetches preceded within
\* the window was delayed by the increased delay, which is more than
\* base_delay and at most max_delay before the jitter.
C19_WindowThrottles ==
    \A k \in 1..Len(fetch_log) :
        Cardinality(StartedBefore(k)) >= requests_per_minute =>
            /\ fetch_log[k].delay > base_delay
            /\ fetch_log[k].delay <= max_delay

\* ------------------------------------------------------------------------
\* scrape_google_maps_hyper and its result cache (hyper_scraper.py).  Every
\* call is made by a run of hyper_scrape, which creates its own
\* HyperScraper: the memory tier of its cache is empty when the call looks
\* the query up, and the sqlite table is what earlier runs left.
\* ------------------------------------------------------------------------

\* The ttl_hours of the result cache's entries.
hyper_ttl_hours == 8

\* cache.get(cache_key, ttl_hours=8) for the row the table holds, written
\* `age` hours ago: <<its value>>, or <<>> for None.
hyper_cache_get(cached) ==
    IF cached # <<>> /\ ~(cached[1].age > hyper_ttl_hours)
    THEN <<cached[1].value>> ELSE <<>>

\* A call that has just been made; `entry` is what the cache holds for its
\* query and has not expired.
HyperCall(cached) ==
    [pc |-> "start", entry |-> hyper_cache_get(cached), checkouts |-> 0,
     navigations |-> 0, processed |-> 0, raised |-> FALSE, returned |-> <<>>]

\* What the results page and the listing processors give a scrape: an
\* exception, no listing at all, or listings of which some become leads.
HyperScrapes ==
    {[listings |-> n, raises |-> FALSE, results |-> r] :
        n \in 0..2, r \in {<<>>, <<ScrapedLead>>, <<ScrapedLead, ScrapedLead>>}}
    \cup {[listings |-> n, raises |-> TRUE, results |-> <<>>] : n \in 0..2}

\* The cache holds nothing for the query, or leads of an earlier run.
InitHyper ==
    /\ Idle("hyper")
    /\ hyper_cached \in {<<>>} \cup {<<[value |-> <<ScrapedLead>>, age |-> a]>> :
                                         a \in {0, hyper_ttl_hours + 1}}
    /\ hyper_call = HyperCall(hyper_cached)

\* The cache lookup: `if cached_results:` returns the cached leads.
HyperLookup ==
    /\ hyper_call.pc = "start"
    /\ LET cached_results == hyper_cache_get(hyper_cached)
       IN hyper_call' = IF cached_results # <<>> /\ cached_results[1] # <<>>
                        THEN [hyper_call EXCEPT !.pc = "done",
                                                !.returned = cached_results[1]]
                        ELSE [hyper_call EXCEPT !.pc = "scrape"]
    /\ UNCHANGED <<hyper_cached, notHyperVars>>

\* The scrape: a context is checked out and the search page opened; with
\* no listing on it the call returns [] at once; otherwise the listings
\* are processed, and the leads are cached and returned.
HyperScrape(found) ==
    /\ hyper_call.pc = "scrape"
    /\ Len(found.results) <= found.listings
    /\ LET scraping == [hyper_call EXCEPT !.pc = "done", !.checkouts = @ + 1,
                                          !.navigations = @ + 1]
       IN IF found.raises
          THEN /\ hyper_call' = [scraping EXCEPT !.raised = TRUE,
                                                 !.processed = found.listings]
               /\ UNCHANGED hyper_cached
          ELSE IF found.listings = 0
               THEN hyper_call' = scraping /\ UNCHANGED hyper_cached
               ELSE /\ hyper_call' = [scraping EXCEPT !.processed = found.listings,
                                                      !.returned = found.results]
                    /\ hyper_cached' = <<[value |-> found.results, age |-> 0]>>
    /\ UNCHANGED notHyperVars

\* hyper_scrape is run again for the same query.
HyperNextCall ==
    /\ hyper_call.pc = "done"
    /\ hyper_call' = HyperCall(hyper_cached)
    /\ UNCHANGED <<hyper_cached, notHyperVars>>

\* An hour passes between two runs.
HyperHourPasses ==
    /\ hyper_cached # <<>>
    /\ hyper_call.pc = "done"
    /\ hyper_cached[1].age <= hyper_ttl_hours
    /\ hyper_cached' = <<[hyper_cached[1] EXCEPT !.age = @ + 1]>>
    /\ UNCHANGED <<hyper_call, notHyperVars>>

HyperNext ==
    \/ HyperLookup
    \/ \E found \in HyperScrapes : HyperScrape(found)
    \/ HyperNextCall
    \/ HyperHourPasses

SpecHyper == InitHyper /\ [][HyperNext]_vars

\* C20: a call made while the cache holds a non-expired entry for the
\* query, whatever list it stores, returns that list, with no context
\* checked out, no navigation and no listing processed.
C20_CacheHitReturnsAtOnce ==
    (hyper_call.pc = "done" /\ hyper_call.entry # <<>>) =>
        /\ hyper_call.returned = hyper_call.entry[1]
        /\ ~hyper_call.raised
        /\ hyper_call.checkouts = 0
        /\ hyper_call.navigations = 0
        /\ hyper_call.processed = 0


\* ------------------------------------------------------------------------
\* Selector chains and field extraction (hyper_scraper.py, turbo_scraper.py,
\* ultimate_scraper.py)
\* ------------------------------------------------------------------------

\* At most this many extractions start.
MaxFinds == 3

\* The selectors for the phone that the three scrapers declare alike, in the
\* order of their declaration.
selector_chains ==
    <<"button[data-item-id*=\"phone\"]", "[data-value*=\"phone\"] span",
      "button:has-text(\"Call\")">>

Declared == {selector_chains[i] : i \in 1..Len(selector_chains)}
DeclaredAt(s) == CHOOSE i \in 1..Len(selector_chains) : selector_chains[i] = s

\* 100 / (elapsed + 0.1), for an element found after 49.9 or 24.9 seconds.
Speeds == {2, 4}

\* What page.query_selector(selector) does: raise, or return an element or
\* None.  The element's inner text is a phone number or the word "Call".
PhonePages ==
    [Declared -> {Raise, Return(NoElement), Return(<<Text.JoesPhone>>),
                  Return(<<Text.Call>>)}]

\* No selector of the chain has a weight yet.
NoWeights == [s \in Declared |-> <<>>]

\* self.selector_weights[selector_type].get(s, 0)
weight_get(weights, s) == IF weights[s] = <<>> THEN 0 ELSE weights[s][1]

\* A descending sort that puts a selector before those of equal weight.
RECURSIVE sorted_ties_reversed(_, _, _)
sorted_ties_reversed(weights, rest, sorted) ==
    IF rest = <<>> THEN sorted
    ELSE LET x == Head(rest)
             after == {i \in 1..Len(sorted) :
                          weight_get(weights, sorted[i]) <= weight_get(weights, x)}
             at == IF after = {} THEN Len(sorted) + 1
                   ELSE CHOOSE i \in after : \A j \in after : i <= j
         IN sorted_ties_reversed(weights, Tail(rest),
                SubSeq(sorted, 1, at - 1) \o <<x>> \o SubSeq(sorted, at, Len(sorted)))

\* sorted(selectors, key=lambda s: weights.get(s, 0), reverse=True):
\* descending by weight, selectors of equal weight in their original order.
RECURSIVE sorted_reverse(_, _, _)
sorted_reverse(weights, rest, sorted) ==
    IF rest = <<>> THEN sorted
    ELSE LET x == Head(rest)
             after == {i \in 1..Len(sorted) :
                          weight_get(weights, sorted[i]) < weight_get(weights, x)}
             at == IF after = {} THEN Len(sorted) + 1
                   ELSE CHOOSE i \in after : \A j \in after : i <= j
         IN sorted_reverse(weights, Tail(rest),
                SubSeq(sorted, 1, at - 1) \o <<x>> \o SubSeq(sorted, at, Len(sorted)))

\* The order of the selectors at the start of a call: sorted once the
\* selector type has an entry in the weights; extract_phone_ultimate keeps
\* its list as declared.
ordered_selectors(by, weights) ==
    IF by # "ultimate" /\ weights # NoWeights
    THEN sorted_reverse(weights, selector_chains, <<>>)
    ELSE selector_chains

\* The element has a text of more than 5 characters when stripped.
plausible_phone(element) == Len(strip(element[1])) > 5

\* The position in `order` of the first selector that the loop returns at:
\* one that has an element (find_element_smart, find_element_fast), or one
\* that has an element with a plausible text (extract_phone_ultimate); 0 when
\* the loop ends without.
first_match(by, order, page) ==
    LET hits == {i \in 1..Len(order) :
                    /\ ~page[order[i]].raised
                    /\ page[order[i]].value # NoElement
                    /\ by = "ultimate" => plausible_phone(page[order[i]].value)}
    IN IF hits = {} THEN 0 ELSE CHOOSE i \in hits : \A j \in hits : i <= j

\* _update_performance (hyper), the hit count (turbo): the weights after the
\* selector at 0-based `position` matched.
update_performance(by, weights, selector, speed, position) ==
    CASE by = "hyper" -> [weights EXCEPT ![selector] = <<speed - position * 2>>]
      [] by = "turbo" ->
            [weights EXCEPT ![selector] = <<weight_get(weights, selector) + 1>>]
      [] OTHER -> weights

\* extract_phone_hyper, extract_phone_fast: the stripped text of the element
\* that was found, if it is plausible.
extract_phone_of(element) ==
    IF element # NoElement /\ plausible_phone(element) THEN strip(element[1]) ELSE Empty

InitSelector ==
    /\ Idle("selector")
    /\ engine \in {"hyper", "turbo", "ultimate"}
    /\ selector_weights = NoWeights
    /\ selectors = <<>>
    /\ page_elements = [s \in Declared |-> Return(NoElement)]
    /\ find_pc = "idle"
    /\ extracted = Empty
    /\ finds = 0

\* An extraction of the phone starts on a page: the selectors are put in
\* order.
SortSelectors(page) ==
    /\ find_pc = "idle"
    /\ finds < MaxFinds
    /\ finds' = finds + 1
    /\ page_elements' = page
    /\ selectors' = ordered_selectors(engine, selector_weights)
    /\ find_pc' = "sorted"
    /\ UNCHANGED <<engine, selector_weights, extracted, notSelectorVars>>

\* The loop over the selectors runs and the extractor returns.
QuerySelectors(speed) ==
    /\ find_pc = "sorted"
    /\ LET at == first_match(engine, selectors, page_elements)
           element == IF at = 0 THEN NoElement ELSE page_elements[selectors[at]].value
       IN /\ selector_weights' =
                 IF at = 0 THEN selector_weights
                 ELSE update_performance(engine, selector_weights, selectors[at],
                                         speed, at - 1)
          /\ extracted' = extract_phone_of(element)
    /\ find_pc' = "idle"
    /\ UNCHANGED <<engine, selectors, page_elements, finds, notSelectorVars>>

SelectorNext ==
    \/ \E page \in PhonePages : SortSelectors(page)
    \/ \E speed \in Speeds : QuerySelectors(speed)

SpecSelector == InitSelector /\ [][SelectorNext]_vars

\* C23: when an extraction of the phone has returned and some declared
\* selector matched an element with a plausible text on the page, the
\* extraction returned a non-empty value.
C23_PlausibleCandidateIsExtracted ==
    (find_pc = "idle" /\ finds > 0) =>
        ((\E s \in Declared :
             /\ ~page_elements[s].raised
             /\ page_elements[s].value # NoElement
             /\ plausible_phone(page_elements[s].value))
         => extracted # Empty)

\* C24: the order in which a call tries the selectors is a permutation of the
\* declared list, by weight (0 for a selector without one) from high to low,
\* selectors of equal weight in the order of their declaration.
C24_TriedInWeightOrder ==
    find_pc = "sorted" =>
        /\ Len(selectors) = Len(selector_chains)
        /\ {selectors[k] : k \in 1..Len(selectors)} = Declared
        /\ \A k, m \in 1..Len(selectors) :
               k < m =>
                   LET a == weight_get(selector_weights, selectors[k])
                       b == weight_get(selector_weights, selectors[m])
                   IN \/ a > b
                      \/ (a = b /\ DeclaredAt(selectors[k]) < DeclaredAt(selectors[m]))

\* C24: a call tries the selectors in another order than declared, and two
\* with the same weight one after the other.
C24_Witness ==
    /\ find_pc = "sorted"
    /\ engine = "hyper"
    /\ selectors # selector_chains
    /\ \E k \in 1..(Len(selectors) - 1) :
           weight_get(selector_weights, selectors[k])
               = weight_get(selector_weights, selectors[k + 1])


\* ------------------------------------------------------------------------
\* Merging website information into a lead (async_scraper.py, main.py)
\* ------------------------------------------------------------------------

\* The fields a website scraper reports.
ContactFields == {"email", "instagram", "facebook", "tiktok", "twitter"}

\* What a lead holds, or a website shows, for a contact field.
ContactValues(f, from_site) ==
    CASE f = "email" -> {Empty, IF from_site THEN Text.JoesEmail ELSE Text.OwnerEmail}
      [] f = "instagram" -> {Empty, Text.InstagramUrl}
      [] f = "facebook" -> {Empty, Text.FacebookUrl}
      [] f = "tiktok" -> {Empty, Text.TiktokUrl}
      [] f = "twitter" -> {Empty, Text.XUrl}

\* enrich_lead_async: a lead with a website takes email, instagram, facebook
\* and tiktok from the website information, and twitter if it has none.
\* enrich_business_data (scrape_single_business): the same without twitter.
merge_website_info(by, l, info) ==
    IF ~Truthy(l.website) THEN l
    ELSE [l EXCEPT !.email = info.email,
                   !.instagram = info.instagram,
                   !.facebook = info.facebook,
                   !.tiktok = info.tiktok,
                   !.twitter = IF by = "enrich_lead_async" /\ ~Truthy(l.twitter)
                               THEN info.twitter ELSE l.twitter]

\* A lead is passed to enrichment; its website shows some contact data.
InitMerge ==
    /\ Idle("merge")
    /\ merge_by \in {"enrich_lead_async", "enrich_business_data"}
    /\ \E w \in {Empty, Text.JoesWebsite} :
         \E held \in [ContactFields -> BOOLEAN] :
            lead_data = [f \in DOMAIN NewLead |->
                            IF f = "name" THEN Text.JoesPizza
                            ELSE IF f = "website" THEN w
                            ELSE IF f \in ContactFields /\ held[f]
                                 THEN CHOOSE v \in ContactValues(f, FALSE) : v # Empty
                                 ELSE NewLead[f]]
    /\ \E shown \in [ContactFields -> BOOLEAN] :
          website_info = [f \in ContactFields |->
                             IF shown[f]
                             THEN CHOOSE v \in ContactValues(f, TRUE) : v # Empty
                             ELSE Empty]
    /\ enriched_lead = <<>>

\* The enrichment runs and returns the lead; enrich_lead_async scores it
\* again, with or without the validation libraries.
EnrichLead(available) ==
    /\ enriched_lead = <<>>
    /\ LET merged == merge_website_info(merge_by, lead_data, website_info)
       IN enriched_lead' = IF merge_by = "enrich_lead_async"
                           THEN <<Scored("BusinessLead", merged, available)>>
                           ELSE <<merged>>
    /\ UNCHANGED <<merge_by, lead_data, website_info, notMergeVars>>

SpecMerge == InitMerge /\ [][\E available \in BOOLEAN : EnrichLead(available)]_vars

\* C25: after enrichment, every one of email, instagram, facebook, tiktok and
\* twitter that the lead held before holds the same value.
C25_MergeKeepsPopulatedFields ==
    enriched_lead # <<>> =>
        \A f \in ContactFields :
            Truthy(lead_data[f]) => enriched_lead[1][f] = lead_data[f]


\* ------------------------------------------------------------------------
\* The circuit breaker of EnhancedErrorHandler (ultimate_scraper.py).  Time
\* is in units of 100 seconds.
\* ------------------------------------------------------------------------

\* The breaker may close once more than 300 seconds have passed.
ResetAfter == 3
\* At most this many execute_with_retry calls are made on the handler.
MaxRetryCalls == 3
\* The clock stops here.
MaxBreakerTime == 6

\* EnhancedErrorHandler.is_circuit_open at time t: what it returns, and the
\* failure count it leaves.
is_circuit_open_at(breaker, t) ==
    IF breaker.failures >= threshold
    THEN IF t - breaker.last_failure > ResetAfter
         THEN [open |-> FALSE, failures |-> 0]
         ELSE [open |-> TRUE, failures |-> breaker.failures]
    ELSE [open |-> FALSE, failures |-> breaker.failures]

\* EnhancedErrorHandler.__init__
InitBreaker ==
    /\ Idle("breaker")
    /\ circuit_breaker = [failures |-> 0, last_failure |-> 0]
    /\ breaker_now = 0
    /\ retry = [running |-> FALSE, attempt |-> 0]
    /\ retry_calls = 0
    /\ last_try = [kind |-> "none", before |-> circuit_breaker]

\* execute_with_retry is called.
StartRetry ==
    /\ ~retry.running
    /\ retry_calls < MaxRetryCalls
    /\ retry_calls' = retry_calls + 1
    /\ retry' = [running |-> TRUE, attempt |-> 0]
    /\ UNCHANGED <<circuit_breaker, breaker_now, last_try, notBreakerVars>>

\* One iteration of the loop of execute_with_retry: the breaker is checked
\* and, unless it is open, the wrapped function is called and returns
\* (func_ok) or raises.  The exception of the open breaker is raised inside
\* the try block and handled like one of the function.
TryOnce(func_ok) ==
    /\ retry.running
    /\ LET checked == is_circuit_open_at(circuit_breaker, breaker_now)
       IN /\ last_try' = [kind |-> IF checked.open THEN "rejected" ELSE "invoked",
                          before |-> circuit_breaker]
          /\ IF ~checked.open /\ func_ok
             THEN /\ circuit_breaker' = [circuit_breaker EXCEPT !.failures = 0]
                  /\ retry' = [running |-> FALSE, attempt |-> 0]
             ELSE /\ circuit_breaker' = [failures |-> checked.failures + 1,
                                         last_failure |-> breaker_now]
                  /\ retry' = IF retry.attempt + 1 < max_retries
                              THEN [retry EXCEPT !.attempt = @ + 1]
                              ELSE [running |-> FALSE, attempt |-> 0]
    /\ UNCHANGED <<breaker_now, retry_calls, notBreakerVars>>

\* 100 seconds pass.
BreakerTick ==
    /\ breaker_now < MaxBreakerTime
    /\ breaker_now' = breaker_now + 1
    /\ UNCHANGED <<circuit_breaker, retry, retry_calls, last_try, notBreakerVars>>

BreakerNext ==
    \/ StartRetry
    \/ \E func_ok \in BOOLEAN : TryOnce(func_ok)
    \/ BreakerTick

SpecBreaker == InitBreaker /\ [][BreakerNext]_vars

\* C29: an attempt that the open breaker rejected left the breaker's failure
\* count and last_failure as they were.
C29_RejectionIsNoFailure ==
    last_try.kind = "rejected" => circuit_breaker = last_try.before


\* ------------------------------------------------------------------------
\* Scrape jobs of the backend API (backend/main.py)
\* ------------------------------------------------------------------------

\* At most this many jobs are created.
MaxJobs == 2

\* The users that verify_token admits.
Users == {"alice", "bob"}

\* What scrape_leads_optimized returns for a job.
JobLeads == {<<>>, <<Text.JoesPizza>>, <<Text.JoesPizza, Text.Haywire>>}

\* The API has started; no job has been created.
InitJobs ==
    /\ Idle("job")
    /\ jobs = <<>>
    /\ redis = <<>>
    /\ last_read = [user |-> "none", job |-> 0, kind |-> "none", leads |-> <<>>]

\* POST /scrape: create_scrape_job adds the row of the job, owned by the
\* caller, and schedules the background task.
create_scrape_job(user_id) ==
    /\ Len(jobs) < MaxJobs
    /\ jobs' = Append(jobs, [user_id |-> user_id, status |-> "pending",
                             leads |-> <<>>])
    /\ redis' = Append(redis, <<>>)
    /\ UNCHANGED <<last_read, notJobVars>>

\* process_scrape_job: the job is scraped, its row completed and its result
\* cached for an hour; an exception of the cache write marks the row failed.
process_scrape_job(job_id, found, setex_ok) ==
    /\ jobs[job_id].status = "pending"
    /\ jobs' = [jobs EXCEPT ![job_id] =
                   [@ EXCEPT !.status = IF setex_ok THEN "completed" ELSE "failed",
                             !.leads = found]]
    /\ redis' = IF setex_ok THEN [redis EXCEPT ![job_id] = <<found>>] ELSE redis
    /\ UNCHANGED <<last_read, notJobVars>>

\* The hour of a cached result is over.
ExpireKey(job_id) ==
    /\ redis[job_id] # <<>>
    /\ redis' = [redis EXCEPT ![job_id] = <<>>]
    /\ UNCHANGED <<jobs, last_read, notJobVars>>

\* GET /scrape/{job_id}: the cached result if there is one; else the row with
\* this id and the caller's user_id: its status, and its leads when it is
\* completed.
get_scrape_result(job_id, user_id) ==
    /\ last_read' =
          IF job_id <= Len(redis) /\ redis[job_id] # <<>>
          THEN [user |-> user_id, job |-> job_id, kind |-> "completed",
                leads |-> redis[job_id][1]]
          ELSE IF job_id > Len(jobs) \/ jobs[job_id].user_id # user_id
               THEN [user |-> user_id, job |-> job_id, kind |-> "Job not found",
                     leads |-> <<>>]
               ELSE [user |-> user_id, job |-> job_id, kind |-> jobs[job_id].status,
                     leads |-> IF jobs[job_id].status = "completed"
                               THEN jobs[job_id].leads ELSE <<>>]
    /\ UNCHANGED <<jobs, redis, notJobVars>>

JobNext ==
    \/ \E user_id \in Users : create_scrape_job(user_id)
    \/ \E job_id \in 1..Len(jobs) : \E found \in JobLeads : \E setex_ok \in BOOLEAN :
          process_scrape_job(job_id, found, setex_ok)
    \/ \E job_id \in 1..Len(jobs) : ExpireKey(job_id)
    \/ \E job_id \in 1..MaxJobs : \E user_id \in Users :
          get_scrape_result(job_id, user_id)

SpecJob == InitJobs /\ [][JobNext]_vars

\* C30: a read of a job by a user who did not create it is answered with
\* "Job not found".
C30_OnlyOwnerReadsJob ==
    (/\ last_read.kind # "none"
     /\ last_read.job <= Len(jobs)
     /\ jobs[last_read.job].user_id # last_read.user)
        => last_read.kind = "Job not found"

====
